---- MODULE Spec2Model ----
(***************************************************************************)
(* A model of the ZLang compiler pipeline (src/main.py compile_zlang):     *)
(*   lexer (src/lexer.py) -> optimizer (src/optimizer.py) ->               *)
(*   semantic validator (src/semantics.py).                                *)
(*                                                                         *)
(* Tokens are records [k, s, n, d]:                                        *)
(*   k = "id"   an identifier, s its text                                  *)
(*   k = "type" a type keyword, s its text                                 *)
(*   k = "int"  a literal written as digits (with "-" when n < 0)          *)
(*   k = "flt"  a literal in Python's str(float) form, value n/d in        *)
(*              lowest terms; s = "-" marks the float -0.0                 *)
(*   k = "str" / "bool"  a quoted string / true,false literal              *)
(*   k = "expr" several source tokens joined by blanks into one operand    *)
(*   k = "sym"  an operator of a condition                                 *)
(* Two tokens are equal exactly when their source texts are equal.         *)
(* float values are exact rationals: on the literals used here +,-,* are   *)
(* exact in double precision and a quotient is only compared with zero.    *)
(***************************************************************************)
EXTENDS Integers, Sequences, FiniteSets, TLC

VARIABLES
    source,         \* the lines of the .z file: [indent, op, operands, ret]
    pc,             \* stage of compile_zlang: "lex","optimize","validate","done" (validated),
                    \* "generated","failed"
    lineNo,         \* lexer: number of source lines consumed
    indent_stack,   \* lexer: indentation levels
    lex_function,   \* lexer: current_function (NoneV at top level)
    lex_depth,      \* lexer: func_depth
    instructions,   \* the lexer's instruction stream
    declarations,   \* the lexer's declaration table, as the validator mutates it
    optimized,      \* optimizer: the stream being rewritten
    round,          \* optimizer: number of rounds of the pass loop started
    pass,           \* optimizer: next pass of the round
    analyzer,       \* SemanticAnalyzer fields: current_function, func_depth, return_type
    vidx,           \* validator: number of instructions processed
    error,          \* the CompilerError raised, or NoError
    c_lines,        \* generator: the lines of C emitted for the functions
    status,         \* the exit status of the compiler process, or NoStatus
    output_format,  \* the requested output: "c", "exe" or "s"; "" until it is read
    backend,        \* compile_zlang after generation: "idle", "written", "returned",
                    \* "failed"
    c_file,         \* the C file of this run: "absent" or "present"
    output          \* the executable or assembly file of this run: "absent" or "present"

vars == <<source, pc, lineNo, indent_stack, lex_function, lex_depth, instructions,
          declarations, optimized, round, pass, analyzer, vidx, error, c_lines, status,
          output_format, backend, c_file, output>>

backVars == <<output_format, backend, c_file, output>>

----------------------------------------------------------------------------
(* Bounds of the model *)

MaxLen == 3
\* The widths in bits of the C types int and long long.  A build has 32 and 64;
\* the model keeps long long twice as wide as int and scales both down, so that
\* the exact results of the arithmetic stay small.
IntBits == 8
LongLongBits == 16
\* <limits.h>
INT_MAX == 2 ^ (IntBits - 1) - 1
INT_MIN == -(2 ^ (IntBits - 1))
\* the longest text of a line given as text
MaxText == 6

----------------------------------------------------------------------------
(* Tokens *)

NoneV == "<None>"
\* the process is still running
NoStatus == -1

Id(name)  == [k |-> "id",   s |-> name, n |-> 0, d |-> 1]
Ty(name)  == [k |-> "type", s |-> name, n |-> 0, d |-> 1]
Lit(i)    == [k |-> "int",  s |-> "",   n |-> i, d |-> 1]
Str(text) == [k |-> "str",  s |-> text, n |-> 0, d |-> 1]
BoolLit(text) == [k |-> "bool", s |-> text, n |-> 0, d |-> 1]
Joined(text) == [k |-> "expr", s |-> text, n |-> 0, d |-> 1]
\* a comparison or logical operator of a condition: ==, !=, <, >, <=, >=, &&, ||, !
Sym(text) == [k |-> "sym", s |-> text, n |-> 0, d |-> 1]

\* the token made of one double quote: it starts and ends with a quote
LoneQuote == [k |-> "quote", s |-> "\"", n |-> 0, d |-> 1]

Abs(i) == IF i < 0 THEN -i ELSE i

RECURSIVE Gcd(_, _)
Gcd(a, b) == IF b = 0 THEN a ELSE Gcd(b, a % b)

\* A float value: the rational num/den (den # 0); negzero marks -0.0.
Val(num, den, negzero) ==
    LET g  == Gcd(Abs(num), Abs(den))
        sn == IF den < 0 THEN -num ELSE num
    IN  [n |-> sn \div g, d |-> Abs(den) \div g, negzero |-> (num = 0 /\ negzero)]

\* str(result) of a Python float
FloatToken(v) == [k |-> "flt", s |-> IF v.negzero THEN "-" ELSE "", n |-> v.n, d |-> v.d]

\* The source text of a token (a float's text is stood for by its fraction).
Text(t) ==
    CASE t.k = "int" -> ToString(t.n)
      [] t.k = "flt" -> IF t.s = "-" THEN "-0.0" ELSE ToString(t.n) \o "/" \o ToString(t.d)
      [] t.k = "str" -> "\"" \o t.s \o "\""
      [] OTHER       -> t.s

----------------------------------------------------------------------------
(* Errors: src/errors.py *)

\* class ErrorCode: the categories and their numeric codes
ErrorCode ==
    [FILE_NOT_FOUND |-> 1, FILE_READ_ERROR |-> 2, FILE_WRITE_ERROR |-> 3,
     INVALID_FILE_FORMAT |-> 4, IO_ERROR |-> 5,
     SYNTAX_ERROR |-> 11, UNEXPECTED_TOKEN |-> 12, MISSING_TOKEN |-> 13,
     INVALID_SYNTAX |-> 14, UNKNOWN_OPCODE |-> 15, INVALID_CONDITION |-> 16,
     UNDEFINED_SYMBOL |-> 21, REDEFINED_SYMBOL |-> 22, TYPE_MISMATCH |-> 23,
     INVALID_OPERATION |-> 24, INVALID_TYPE |-> 25, INVALID_OPERAND |-> 26,
     TYPE_ERROR |-> 27, MISSING_RETURN |-> 28,
     CODE_GEN_ERROR |-> 31, COMPILER_ERROR |-> 32,
     RUNTIME_ERROR |-> 41, DIVISION_BY_ZERO |-> 42, OUT_OF_BOUNDS |-> 43, OVERFLOW |-> 45,
     SYSTEM_ERROR |-> 51, COMPILER_BUG |-> 52,
     EXTERNAL_TOOL_ERROR |-> 61, COMPILATION_ERROR |-> 62, COMPILATION_FAILED |-> 63,
     NO_COMPILER |-> 64, CONFIGURATION_ERROR |-> 71, MISSING_DEPENDENCY |-> 72,
     UNEXPECTED_ERROR |-> 90, NO_OUTPUT_FILE |-> 91, CUSTOM_ERROR |-> 99]

NoError == [code |-> "NONE", line |-> 0]
CompilerError(code, line_num) == [code |-> code, line |-> line_num]
\* An exception that is no CompilerError (AttributeError, KeyError, ...)
Uncategorized(name, line_num) == [code |-> name, line |-> line_num]

----------------------------------------------------------------------------
(* Instructions and declarations *)

Instr(op, operands, line_num) == [op |-> op, operands |-> operands, line |-> line_num]

types_set == {"int", "float", "double", "string", "bool"}
array_types == {"Aint", "Afloat", "Adouble", "Abool", "Astring"}

OPS == {"MOV", "ADD", "SUB", "MUL", "DIV", "PRINT", "READ", "MOD", "INC", "DEC", "CALL",
        "RET", "ERROR", "FNDEF", "FN", "FOR", "WHILE", "IF", "ELSE", "ELIF", "PRINTSTR",
        "PRINTARR", "CONST", "ARR", "LEN", "PUSH", "POP", "PTR", "IMPORT"}

\* A key of the declaration table: the tuple (scope, name), or a plain string.
TupleKey(scope, name) == <<scope, name>>
StrKey(text) == <<"<str>", text>>

NoDecl == [kind |-> "none", const |-> FALSE, type |-> NoneV, line |-> 0,
           params |-> <<>>, return_type |-> NoneV]
VarDecl(is_const, type, line_num) ==
    [kind |-> "var", const |-> is_const, type |-> type, line |-> line_num,
     params |-> <<>>, return_type |-> NoneV]

EmptyDecls == [key \in {} |-> NoDecl]
Put(decls, key, decl) == (key :> decl) @@ decls

\* s with its first count elements dropped
Drop(s, count) == SubSeq(s, count + 1, Len(s))
Last(s) == s[Len(s)]
Front(s) == SubSeq(s, 1, Len(s) - 1)

----------------------------------------------------------------------------
(* Lexer: src/lexer.py parse_z_file *)

\* A line given as text is a sequence of characters (strings of length one).

\* line 96, line.split('//')[0]: the text before the first "//", if there is one
RECURSIVE FirstComment(_, _)
FirstComment(chars, i) ==
    IF i >= Len(chars) THEN 0
    ELSE IF chars[i] = "/" /\ chars[i + 1] = "/" THEN i
    ELSE FirstComment(chars, i + 1)

StripComment(chars) ==
    IF FirstComment(chars, 1) = 0 THEN chars
    ELSE SubSeq(chars, 1, FirstComment(chars, 1) - 1)

\* the first index from i on whose character is c, e.g. a closing quote; 0 if none
RECURSIVE Find(_, _, _)
Find(chars, i, c) ==
    IF i > Len(chars) THEN 0
    ELSE IF chars[i] = c THEN i ELSE Find(chars, i + 1, c)

\* the last index of the run of non-blank characters that starts at i
RECURSIVE RunEnd(_, _)
RunEnd(chars, i) ==
    IF i + 1 <= Len(chars) /\ chars[i + 1] # " " THEN RunEnd(chars, i + 1) ELSE i

\* line 9, TOKEN_RE.findall: "[^"]*" or, failing that, \S+, from left to right
RECURSIVE FindAll(_, _)
FindAll(chars, i) ==
    IF i > Len(chars) THEN <<>>
    ELSE IF chars[i] = " " THEN FindAll(chars, i + 1)
    ELSE IF chars[i] = "\"" /\ Find(chars, i + 1, "\"") # 0
    THEN <<SubSeq(chars, i, Find(chars, i + 1, "\""))>>
             \o FindAll(chars, Find(chars, i + 1, "\"") + 1)
    ELSE <<SubSeq(chars, i, RunEnd(chars, i))>> \o FindAll(chars, RunEnd(chars, i) + 1)

\* the characters as one string
RECURSIVE Concat(_)
Concat(chars) == IF chars = <<>> THEN "" ELSE Head(chars) \o Concat(Tail(chars))

\* the token of the model for a matched piece of text
TokenOf(piece) ==
    IF piece = <<"\"">> THEN LoneQuote
    ELSE IF Head(piece) = "\"" /\ Last(piece) = "\""
    THEN Str(Concat(SubSeq(piece, 2, Len(piece) - 1)))
    ELSE Id(Concat(piece))

RECURSIVE TokensOf(_)
TokensOf(pieces) ==
    IF pieces = <<>> THEN <<>> ELSE <<TokenOf(Head(pieces))>> \o TokensOf(Tail(pieces))

\* lines 95-131: a line given as an opcode and the text after it, split into operands
Tokenized(line) ==
    IF "text" \in DOMAIN line
    THEN [indent |-> line.indent, op |-> line.op,
          operands |-> TokensOf(FindAll(StripComment(line.text), 1)), ret |-> ""]
    ELSE line

\* " ".join(tokens).strip()
RECURSIVE JoinText(_)
JoinText(tokens) ==
    IF Len(tokens) = 1 THEN Text(tokens[1])
    ELSE Text(tokens[1]) \o " " \o JoinText(Tail(tokens))

JoinExpr(tokens) == IF Len(tokens) = 1 THEN tokens[1] ELSE Joined(JoinText(tokens))

\* a block end that closes one level only
LexDedentOnce(stack, fn, depth, out, indent, line_num) ==
    IF indent < Last(stack)
    THEN [stack |-> Front(stack), fn |-> fn, depth |-> depth,
          out |-> Append(out, Instr("DEDENT", <<>>, line_num))]
    ELSE [stack |-> stack, fn |-> fn, depth |-> depth, out |-> out]

\* lines 82-93: pop one level per DEDENT while the line is shallower than the top
RECURSIVE LexDedent(_, _, _, _, _, _)
LexDedent(stack, fn, depth, out, indent, line_num) ==
    IF indent < Last(stack)
    THEN LET d2 == IF fn # NoneV THEN (IF depth - 1 > 0 THEN depth - 1 ELSE 0) ELSE depth
             f2 == IF fn # NoneV /\ d2 = 0 THEN NoneV ELSE fn
         IN  LexDedent(Front(stack), f2, d2, Append(out, Instr("DEDENT", <<>>, line_num)),
                       indent, line_num)
    ELSE [stack |-> stack, fn |-> fn, depth |-> depth, out |-> out]

\* lines 75-93: the indentation of one line
LexIndent(stack, fn, depth, indent, line_num) ==
    IF indent > Last(stack)
    THEN [stack |-> Append(stack, indent), fn |-> fn,
          depth |-> IF fn # NoneV THEN depth + 1 ELSE depth,
          out |-> <<Instr("INDENT", <<>>, line_num)>>, err |-> NoError]
    ELSE LET r == LexDedent(stack, fn, depth, <<>>, indent, line_num)
         IN  [stack |-> r.stack, fn |-> r.fn, depth |-> r.depth, out |-> r.out,
              err |-> IF indent # Last(r.stack)
                      THEN CompilerError("SYNTAX_ERROR", line_num) ELSE NoError]

\* lines 162-170: every parameter is a (type, name) pair with a primitive type
FnParamsOk(params) ==
    /\ Len(params) % 2 = 0
    /\ \A i \in 1..Len(params) : (i % 2 = 1) => (params[i].k = "type" /\ params[i].s \in types_set)

\* lines 146-183: FN name(params) [-> type]:
LexFn(line) ==
    IF FnParamsOk(Tail(line.operands))
    THEN [operands |-> IF line.ret # "" THEN Append(line.operands, Ty(line.ret))
                       ELSE line.operands,
          err |-> FALSE]
    ELSE [operands |-> <<>>, err |-> TRUE]

\* lines 252-294: CONST / MOV with a type keyword declare; MOV without one reassigns
LexDeclOperands(operands) ==
    IF Len(operands) > 2
    THEN <<operands[1], operands[2], JoinExpr(Drop(operands, 2))>>
    ELSE <<operands[1], operands[2]>>

IsTypeKeyword(t) == t.k = "type" /\ t.s \in types_set

\* The lexer's treatment of one line after its indentation: the instruction it
\* appends, the declaration it records, or the error it raises (lines 134-334).
LexStatement(line, fn, decls, line_num) ==
    LET ops == line.operands
        bad == [instr |-> <<>>, decls |-> decls, fn |-> fn, reset |-> FALSE,
                err |-> CompilerError("SYNTAX_ERROR", line_num)]
        ok(operands, ds) == [instr |-> <<Instr(line.op, operands, line_num)>>, decls |-> ds,
                             fn |-> fn, reset |-> FALSE, err |-> NoError]
    IN  CASE line.op \notin OPS -> bad
          [] line.op = "FN" ->
                LET r == LexFn(line)
                IN  IF r.err THEN bad
                    ELSE [instr |-> <<Instr("FNDEF", r.operands, line_num)>>, decls |-> decls,
                          fn |-> Text(ops[1]), reset |-> TRUE, err |-> NoError]
          [] line.op = "CONST" ->
                IF Len(ops) >= 1 /\ IsTypeKeyword(ops[1])
                THEN IF Len(ops) < 2 THEN bad
                     ELSE ok(LexDeclOperands(ops),
                             Put(decls, TupleKey(fn, Text(ops[2])),
                                 VarDecl(TRUE, ops[1].s, line_num)))
                ELSE bad
          [] line.op = "MOV" ->
                IF Len(ops) >= 1 /\ IsTypeKeyword(ops[1])
                THEN IF Len(ops) < 2 THEN bad
                     ELSE ok(LexDeclOperands(ops),
                             Put(decls, TupleKey(fn, Text(ops[2])),
                                 VarDecl(FALSE, ops[1].s, line_num)))
                ELSE IF Len(ops) >= 2
                     THEN ok(<<ops[1], JoinExpr(Tail(ops))>>, decls)
                     ELSE bad
          \* lines 185-237: CALL name(args) [-> ret] becomes [name] + args + [ret or "_"]
          [] line.op = "CALL" ->
                ok(ops \o <<IF line.ret = "" THEN Id("_") ELSE Id(line.ret)>>, decls)
          [] OTHER -> ok(ops, decls)

----------------------------------------------------------------------------
(* Optimizer: src/optimizer.py *)

\* float(x) succeeds
is_numeric_operand(x) == x.k \in {"int", "flt"}

\* float(x)
NumOf(x) == [n |-> x.n, d |-> x.d, negzero |-> (x.k = "flt" /\ x.s = "-")]

IsZero(v) == v.n = 0
Negative(v) == v.n < 0 \/ v.negzero

FloorDiv(a, b) == IF b > 0 THEN a \div b ELSE (-a) \div (-b)

\* Python float arithmetic on exact values, with the sign of a zero result
FAdd(a, b) == Val(a.n * b.d + b.n * a.d, a.d * b.d, a.negzero /\ b.negzero)
FSub(a, b) == Val(a.n * b.d - b.n * a.d, a.d * b.d, a.negzero /\ IsZero(b) /\ ~b.negzero)
FMul(a, b) == Val(a.n * b.n, a.d * b.d, Negative(a) # Negative(b))
FDiv(a, b) == Val(a.n * b.d, a.d * b.n, Negative(a) # Negative(b))
FMod(a, b) ==
    LET x == a.n * b.d
        y == b.n * a.d
    IN  Val(x - y * FloorDiv(x, y), a.d * b.d, Negative(b))

\* fold_constant_expression: "none" (returns None), "value", or "raise"
fold_constant_expression(op, operands, line_num) ==
    LET srcs == Front(operands)
        none == [kind |-> "none", value |-> Val(0, 1, FALSE)]
        value(v) == [kind |-> "value", value |-> v]
    IN  IF ~(\A i \in 1..Len(srcs) : is_numeric_operand(srcs[i])) THEN none
        ELSE IF Len(srcs) < 2 THEN none      \* IndexError, swallowed at line 47
        ELSE LET a == NumOf(srcs[1])
                 b == NumOf(srcs[2])
             IN  CASE op = "ADD" -> value(FAdd(a, b))
                   [] op = "SUB" -> value(FSub(a, b))
                   [] op = "MUL" -> value(FMul(a, b))
                   [] op \in {"DIV", "MOD"} ->
                        IF IsZero(b) THEN [kind |-> "raise", value |-> Val(0, 1, FALSE)]
                        ELSE IF op = "DIV" THEN value(FDiv(a, b)) ELSE value(FMod(a, b))
                   [] OTHER -> none

\* constants.get(x, x)
Lookup(constants, x) == IF x \in DOMAIN constants THEN constants[x] ELSE x

RECURSIVE Substitute(_, _)
Substitute(constants, operands) ==
    IF operands = <<>> THEN <<>>
    ELSE <<Lookup(constants, Head(operands))>> \o Substitute(constants, Tail(operands))

\* lines 60-62: a two-operand MOV whose first operand is numeric records a constant
RecordsConstant(op, new_operands) ==
    op = "MOV" /\ Len(new_operands) = 2 /\ is_numeric_operand(new_operands[1])

\* lines 64-66: the opcodes that invalidate the constant named by their first operand
Invalidates(op, operands, constants) ==
    op \in {"STORE", "CALL", "RET"} /\ Len(operands) > 0 /\ operands[1] \in DOMAIN constants

RECURSIVE PropagateFrom(_, _, _, _)
PropagateFrom(instrs, i, constants, out) ==
    IF i > Len(instrs) THEN out
    ELSE LET ins == instrs[i]
             new_operands == Substitute(constants, ins.operands)
             c1 == IF RecordsConstant(ins.op, new_operands)
                   THEN (new_operands[2] :> new_operands[1]) @@ constants
                   ELSE constants
             c2 == IF Invalidates(ins.op, ins.operands, c1)
                   THEN [x \in DOMAIN c1 \ {ins.operands[1]} |-> c1[x]]
                   ELSE c1
         IN  PropagateFrom(instrs, i + 1, c2, Append(out, Instr(ins.op, new_operands, ins.line)))

constant_propagation(instrs) == PropagateFrom(instrs, 1, [x \in {} |-> x], <<>>)

\* lines 77, 84: a two-operand MOV whose second operand is not in used_vars
IsDeadStore(ins, used_vars) ==
    ins.op = "MOV" /\ Len(ins.operands) = 2 /\ ins.operands[2] \notin used_vars

\* lines 76-79: the backward scan collecting used_vars
RECURSIVE UsedVars(_, _, _)
UsedVars(instrs, i, used_vars) ==
    IF i < 1 THEN used_vars
    ELSE IF IsDeadStore(instrs[i], used_vars) THEN UsedVars(instrs, i - 1, used_vars)
    ELSE UsedVars(instrs, i - 1,
                  used_vars \cup {instrs[i].operands[j] : j \in
                                    {j \in 1..Len(instrs[i].operands) :
                                        ~is_numeric_operand(instrs[i].operands[j])}})

RECURSIVE Filter(_, _, _)
Filter(instrs, i, used_vars) ==
    IF i > Len(instrs) THEN <<>>
    ELSE IF IsDeadStore(instrs[i], used_vars) THEN Filter(instrs, i + 1, used_vars)
    ELSE <<instrs[i]>> \o Filter(instrs, i + 1, used_vars)

dead_code_elimination(instrs) == Filter(instrs, 1, UsedVars(instrs, Len(instrs), {}))

\* lines 94-105: one instruction of strength_reduction
Reduce(ins) ==
    LET o == ins.operands
    IN  IF ins.op = "MUL" /\ Len(o) = 3 /\ o[1] = Lit(2)
        THEN Instr("ADD", <<o[2], o[2], o[3]>>, ins.line)
        ELSE IF ins.op = "MUL" /\ Len(o) = 3 /\ o[1] = Lit(1)
        THEN Instr("MOV", <<o[2], o[3]>>, ins.line)
        ELSE IF ins.op = "ADD" /\ Len(o) = 3 /\ o[1] = Lit(0)
        THEN Instr("MOV", <<o[2], o[3]>>, ins.line)
        ELSE ins

RECURSIVE strength_reduction(_)
strength_reduction(instrs) ==
    IF instrs = <<>> THEN <<>>
    ELSE <<Reduce(Head(instrs))>> \o strength_reduction(Tail(instrs))

ArithOps == {"ADD", "SUB", "MUL", "DIV", "MOD"}

\* lines 133-141: the constant folding pass; err is the error it raises
RECURSIVE FoldFrom(_, _, _)
FoldFrom(instrs, i, out) ==
    IF i > Len(instrs) THEN [out |-> out, err |-> NoError]
    ELSE LET ins == instrs[i]
             r == IF ins.op \in ArithOps /\ Len(ins.operands) >= 2
                  THEN fold_constant_expression(ins.op, ins.operands, ins.line)
                  ELSE [kind |-> "none", value |-> Val(0, 1, FALSE)]
         IN  IF r.kind = "raise"
             THEN [out |-> out, err |-> CompilerError("DIVISION_BY_ZERO", ins.line)]
             ELSE IF r.kind = "value" /\ Len(ins.operands) = 3
             THEN FoldFrom(instrs, i + 1,
                           Append(out, Instr("MOV", <<FloatToken(r.value), ins.operands[3]>>,
                                             ins.line)))
             ELSE FoldFrom(instrs, i + 1, Append(out, ins))

constant_folding(instrs) == FoldFrom(instrs, 1, <<>>)

\* a pass bound one larger than the code's
RoundLimitOffByOne == 3 + 1
\* line 127: for _ in range(3)
RoundLimit == 3

\* line 127: the loop runs another round
AnotherRound(r) == r < RoundLimit

\* optimize_instructions as a function of its input: the stream it returns, the
\* error it raises, and the number of rounds it ran.
RECURSIVE OptimizeLoop(_, _)
OptimizeLoop(stream, r) ==
    LET reduced == strength_reduction(dead_code_elimination(constant_propagation(stream)))
        folded  == constant_folding(reduced)
    IN  IF folded.err # NoError THEN [out |-> <<>>, err |-> folded.err, rounds |-> r]
        ELSE IF folded.out = reduced THEN [out |-> reduced, err |-> NoError, rounds |-> r]
        ELSE IF AnotherRound(r) THEN OptimizeLoop(folded.out, r + 1)
        ELSE [out |-> folded.out, err |-> NoError, rounds |-> r]

optimize_instructions(stream) ==
    IF stream = <<>> THEN [out |-> <<>>, err |-> NoError, rounds |-> 0]
    ELSE OptimizeLoop(stream, 1)

----------------------------------------------------------------------------
(* Semantic validator: src/semantics.py SemanticAnalyzer *)

NumericTypes == {"int", "float", "double"}

Truthy(str) == str # NoneV /\ str # ""

\* _get_decl(name, scope): the declaration found, or NoDecl for None
GetDeclIn(decls, current_function, name, scope) ==
    LET sc == IF Truthy(scope) THEN scope ELSE current_function   \* scope or self.current_function
        local == IF ~Truthy(sc) THEN NoDecl
                 ELSE IF StrKey(sc \o "_" \o name) \in DOMAIN decls
                      THEN decls[StrKey(sc \o "_" \o name)]
                 ELSE IF TupleKey(sc, name) \in DOMAIN decls THEN decls[TupleKey(sc, name)]
                 ELSE NoDecl
        global == IF sc = NoneV THEN NoDecl          \* line 113: if scope is not None
                  ELSE IF StrKey(name) \in DOMAIN decls THEN decls[StrKey(name)]
                  ELSE IF TupleKey(NoneV, name) \in DOMAIN decls THEN decls[TupleKey(NoneV, name)]
                  ELSE NoDecl
    IN  IF local # NoDecl THEN local ELSE global

_get_decl(decls, an, tok) == GetDeclIn(decls, an.current_function, Text(tok), NoneV)

_is_const(decls, an, tok) == _get_decl(decls, an, tok).const

\* _get_type: decl.get("type"), NoneV for None
_get_type(decls, an, tok) == _get_decl(decls, an, tok).type

\* _infer_type: the type of a literal or of a declared name, NoneV for None
_infer_type(decls, an, value) ==
    CASE value.k = "bool" -> "bool"
      [] value.k = "int" /\ value.n >= 0 -> "int"                    \* isdigit()
      [] value.k = "flt" /\ value.n >= 0 /\ value.s # "-" -> "float"
      [] value.k \in {"str", "quote"} -> "string"   \* startswith('"') and endswith('"')
      [] OTHER -> _get_type(decls, an, value)

\* _is_literal
_is_literal(value) == value.k \in {"bool", "int", "flt", "str", "quote"}

Undefined(line_num) == CompilerError("UNDEFINED_SYMBOL", line_num)
ConstViolation(line_num) == CompilerError("INVALID_OPERATION", line_num)
TypeMismatch(line_num) == CompilerError("TYPE_MISMATCH", line_num)

\* _check_variable_exists
_check_variable_exists(decls, an, tok, line_num) ==
    IF _get_decl(decls, an, tok) = NoDecl THEN Undefined(line_num) ELSE NoError

\* _check_const_assignment
_check_const_assignment(decls, an, tok, line_num) ==
    IF _is_const(decls, an, tok) THEN ConstViolation(line_num) ELSE NoError

\* _check_type_compatibility
_check_type_compatibility(decls, an, var, value_type, line_num) ==
    LET var_type == _get_type(decls, an, var)
    IN  IF var_type = NoneV THEN NoError
        ELSE IF var_type \in array_types
        THEN IF value_type \notin array_types /\ value_type # "null"
             THEN TypeMismatch(line_num) ELSE NoError
        ELSE IF var_type # value_type /\ value_type # "null"
        THEN TypeMismatch(line_num) ELSE NoError

\* _check_value_type
_check_value_type(decls, an, value, expected_type, line_num) ==
    LET value_type == _infer_type(decls, an, value)
    IN  IF value_type # NoneV /\ value_type # expected_type
        THEN TypeMismatch(line_num) ELSE NoError

\* the first error among checks made in order
RECURSIVE FirstError(_)
FirstError(errs) ==
    IF errs = <<>> THEN NoError
    ELSE IF Head(errs) # NoError THEN Head(errs) ELSE FirstError(Tail(errs))

\* _handle_mov
_handle_mov(decls, an, operands, line_num) ==
    IF Len(operands) < 2 THEN NoError
    ELSE IF Text(operands[1]) \in types_set
    THEN IF Len(operands) > 2
         THEN _check_value_type(decls, an, operands[3], Text(operands[1]), line_num)
         ELSE NoError
    ELSE LET dest == operands[1]
             value_type == _infer_type(decls, an, operands[2])
         IN  FirstError(<<_check_variable_exists(decls, an, dest, line_num),
                          _check_const_assignment(decls, an, dest, line_num),
                          IF value_type # NoneV
                          THEN _check_type_compatibility(decls, an, dest, value_type, line_num)
                          ELSE NoError>>)

\* lines 405-412: the check of one source operand of an arithmetic instruction
OperandTypeError(decls, an, operand, line_num) ==
    LET op_type == _infer_type(decls, an, operand)
    IN  IF op_type # NoneV /\ op_type \notin NumericTypes
        THEN TypeMismatch(line_num) ELSE NoError

\* _handle_arithmetic
_handle_arithmetic(decls, an, operands, line_num) ==
    IF Len(operands) # 3 THEN CompilerError("SYNTAX_ERROR", line_num)
    ELSE LET dest == operands[3]
         IN  FirstError(<<_check_variable_exists(decls, an, dest, line_num),
                          _check_const_assignment(decls, an, dest, line_num),
                          IF _get_type(decls, an, dest) \notin NumericTypes
                          THEN TypeMismatch(line_num) ELSE NoError,
                          OperandTypeError(decls, an, operands[1], line_num),
                          OperandTypeError(decls, an, operands[2], line_num)>>)

\* _handle_inc_dec
_handle_inc_dec(decls, an, operands, line_num) ==
    IF operands = <<>> THEN CompilerError("SYNTAX_ERROR", line_num)
    ELSE FirstError(<<_check_variable_exists(decls, an, operands[1], line_num),
                      _check_const_assignment(decls, an, operands[1], line_num),
                      IF _get_type(decls, an, operands[1]) \notin NumericTypes
                      THEN TypeMismatch(line_num) ELSE NoError>>)

\* _handle_print
RECURSIVE PrintOperands(_, _, _, _)
PrintOperands(decls, an, operands, line_num) ==
    IF operands = <<>> THEN NoError
    ELSE IF ~_is_literal(Head(operands))
            /\ _check_variable_exists(decls, an, Head(operands), line_num) # NoError
    THEN Undefined(line_num)
    ELSE PrintOperands(decls, an, Tail(operands), line_num)

_handle_print(decls, an, operands, line_num) ==
    IF operands = <<>> THEN CompilerError("SYNTAX_ERROR", line_num)
    ELSE PrintOperands(decls, an, operands, line_num)

FunctionDecl(params, return_type, line_num) ==
    [kind |-> "function", const |-> FALSE, type |-> NoneV, line |-> line_num,
     params |-> params, return_type |-> return_type]
ParamDecl(type, line_num) ==
    [kind |-> "parameter", const |-> FALSE, type |-> type, line |-> line_num,
     params |-> <<>>, return_type |-> NoneV]

\* lines 224-241: the (name, type) pairs read from operands[i], operands[i+1], ...
RECURSIVE FnParams(_, _)
FnParams(operands, i) ==
    IF i + 1 <= Len(operands) /\ Text(operands[i]) # "->"
    THEN <<<<Text(operands[i + 1]), Text(operands[i])>>>> \o FnParams(operands, i + 2)
    ELSE <<>>

\* lines 221-244: the index the parameter loop stops at
RECURSIVE FnParamsEnd(_, _)
FnParamsEnd(operands, i) ==
    IF i + 1 <= Len(operands)
    THEN IF Text(operands[i]) = "->" THEN i + 1 ELSE FnParamsEnd(operands, i + 2)
    ELSE i

\* lines 276-289: the declarations of the parameters, under both kinds of key
RECURSIVE DeclareParams(_, _, _, _)
DeclareParams(decls, func_name, params, line_num) ==
    IF params = <<>> THEN decls
    ELSE LET p == Head(params)
             d == ParamDecl(p[2], line_num)
         IN  DeclareParams(Put(Put(decls, StrKey(func_name \o "_" \o p[1]), d),
                               TupleKey(func_name, p[1]), d),
                           func_name, Tail(params), line_num)

\* _handle_fndef: the analyzer, the declaration table and the error after it
_handle_fndef(decls, an, operands, line_num) ==
    LET same == [an |-> an, decls |-> decls, err |-> NoError]
    IN  IF operands = <<>> THEN same
        ELSE
        LET func_name == Text(operands[1])
            func_key  == "func_" \o func_name
            params    == FnParams(operands, 2)
            stop      == FnParamsEnd(operands, 2)
            return_type == IF stop - 1 < Len(operands) THEN Text(Last(operands)) ELSE "void"
            decl == FunctionDecl(params, return_type, line_num)
        IN  IF \E key \in DOMAIN decls : key[1] # "<str>" /\ key[2] = func_key
            \* line 215: ErrorCode.DUPLICATE_DECLARATION is no member of ErrorCode
            THEN [same EXCEPT !.err = Uncategorized("AttributeError", line_num)]
            ELSE IF \E i \in 1..Len(params) : params[i][2] \notin types_set
            THEN [same EXCEPT !.err = CompilerError("INVALID_TYPE", line_num)]
            ELSE IF return_type \notin types_set /\ return_type # "void"
            THEN [same EXCEPT !.err = CompilerError("INVALID_TYPE", line_num)]
            ELSE [an |-> [current_function |-> func_name, func_depth |-> 0,
                          return_type |-> return_type],
                  decls |-> DeclareParams(Put(Put(decls, StrKey(func_key), decl),
                                              TupleKey(NoneV, func_name), decl),
                                          func_name, params, line_num),
                  err |-> NoError]

\* _handle_loop_start
_handle_loop_start(decls, an, op, operands, line_num) ==
    IF op = "FOR" /\ Len(operands) >= 3 /\ Text(operands[2]) = ".."
    THEN FirstError(<<_check_variable_exists(decls, an, operands[1], line_num),
                      _check_const_assignment(decls, an, operands[1], line_num)>>)
    ELSE NoError

\* _handle_if_elif_else
_handle_if_elif_else(decls, an, op, operands, line_num) ==
    IF op \in {"IF", "ELIF"} /\ operands = <<>> THEN CompilerError("SYNTAX_ERROR", line_num)
    ELSE IF op \in {"IF", "ELIF"} /\ ~(\E i \in 1..Len(operands) : operands[i].k = "sym")
    THEN LET var_type == _get_type(decls, an, operands[1])
         IN  FirstError(<<_check_variable_exists(decls, an, operands[1], line_num),
                          IF var_type # NoneV /\ var_type # "bool"
                          THEN TypeMismatch(line_num) ELSE NoError>>)
    ELSE NoError

HasReturnType(an) == an.return_type # NoneV /\ an.return_type # "void"

\* _handle_ret
_handle_ret(decls, an, operands, line_num) ==
    IF ~HasReturnType(an)
    THEN IF operands # <<>> /\ operands[1] # Lit(0) THEN TypeMismatch(line_num) ELSE NoError
    ELSE IF operands = <<>> THEN TypeMismatch(line_num)
    ELSE LET value_type == _infer_type(decls, an, operands[1])
         IN  IF value_type # NoneV /\ value_type # an.return_type
             THEN TypeMismatch(line_num) ELSE NoError

\* _check_return_type, as called at lines 87-88 (a function with a return type)
_check_return_type(decls, an, operands, line_num) ==
    IF operands = <<>> THEN TypeMismatch(line_num)
    ELSE LET value == operands[1]
             inferred == _infer_type(decls, an, value)
             probe == inferred = NoneV /\ ~_is_literal(value)
             value_type == IF probe THEN _get_type(decls, an, value) ELSE inferred
         IN  FirstError(<<IF probe THEN _check_variable_exists(decls, an, value, line_num)
                          ELSE NoError,
                          IF value_type # NoneV /\ value_type # an.return_type
                          THEN TypeMismatch(line_num) ELSE NoError>>)

\* array_type_map.get(array_type)
ElemType(array_type) ==
    CASE array_type = "Aint" -> "int"
      [] array_type = "Afloat" -> "float"
      [] array_type = "Adouble" -> "double"
      [] array_type = "Abool" -> "bool"
      [] array_type = "Astring" -> "string"
      [] OTHER -> NoneV

\* _handle_arr: declares the array in the table
_handle_arr(decls, an, operands, line_num) ==
    IF Len(operands) < 2 THEN [decls |-> decls, err |-> CompilerError("SYNTAX_ERROR", line_num)]
    ELSE IF Text(operands[1]) \notin array_types
    THEN [decls |-> decls, err |-> CompilerError("INVALID_TYPE", line_num)]
    ELSE IF _get_decl(decls, an, operands[2]) # NoDecl
    \* line 573: ErrorCode.DUPLICATE_DECLARATION is no member of ErrorCode
    THEN [decls |-> decls, err |-> Uncategorized("AttributeError", line_num)]
    ELSE [decls |-> Put(decls, TupleKey(an.current_function, Text(operands[2])),
                        VarDecl(FALSE, Text(operands[1]), line_num)),
          err |-> NoError]

\* _handle_pointer_operations
_handle_pointer_operations(decls, an, op, operands, line_num) ==
    IF op # "PTR" THEN [decls |-> decls, err |-> NoError]
    ELSE IF Len(operands) # 3
    THEN [decls |-> decls, err |-> CompilerError("SYNTAX_ERROR", line_num)]
    ELSE IF Text(operands[1]) \notin types_set
    THEN [decls |-> decls, err |-> CompilerError("INVALID_TYPE", line_num)]
    ELSE IF _check_variable_exists(decls, an, operands[3], line_num) # NoError
    THEN [decls |-> decls, err |-> Undefined(line_num)]
    ELSE [decls |-> Put(decls, TupleKey(an.current_function, Text(operands[2])),
                        VarDecl(FALSE, Text(operands[1]) \o "*", line_num)),
          err |-> NoError]

\* _handle_push_pop
_handle_push_pop(decls, an, op, operands, line_num) ==
    IF Len(operands) < 1 THEN CompilerError("SYNTAX_ERROR", line_num)
    ELSE
    LET array_type == _get_type(decls, an, operands[1])
        elem_type  == ElemType(array_type)
    IN  IF _check_variable_exists(decls, an, operands[1], line_num) # NoError
        THEN Undefined(line_num)
        ELSE IF array_type \notin array_types THEN TypeMismatch(line_num)
        ELSE IF op = "PUSH" /\ Len(operands) >= 2
        THEN LET value_type == _infer_type(decls, an, operands[2])
             IN  IF value_type # NoneV /\ value_type # elem_type
                 THEN TypeMismatch(line_num) ELSE NoError
        ELSE IF op = "POP" /\ Len(operands) >= 2
        THEN LET dest_type == _get_type(decls, an, operands[2])
             IN  FirstError(<<_check_variable_exists(decls, an, operands[2], line_num),
                              _check_const_assignment(decls, an, operands[2], line_num),
                              IF dest_type # NoneV /\ dest_type # elem_type
                              THEN TypeMismatch(line_num) ELSE NoError>>)
        ELSE NoError

\* _handle_len
_handle_len(decls, an, operands, line_num) ==
    IF Len(operands) # 2 THEN CompilerError("SYNTAX_ERROR", line_num)
    ELSE FirstError(<<_check_variable_exists(decls, an, operands[1], line_num),
                      _check_variable_exists(decls, an, operands[2], line_num),
                      _check_const_assignment(decls, an, operands[2], line_num),
                      IF _get_type(decls, an, operands[1]) \notin array_types
                      THEN TypeMismatch(line_num) ELSE NoError>>)

IndexOf(seq, x) == CHOOSE i \in 1..Len(seq) : seq[i] = x /\ \A j \in 1..(i - 1) : seq[j] # x

\* lines 447-462: the arguments and the return variable of a CALL (NoReturnVar: None)
NoReturnVar == Id(NoneV)
CallArgs(operands) ==
    IF \E i \in 1..Len(operands) : operands[i] = Sym("->")
    THEN SubSeq(operands, 2, IndexOf(operands, Sym("->")) - 1)
    ELSE IF Len(operands) > 2 THEN SubSeq(operands, 2, Len(operands) - 1)
    ELSE Tail(operands)
CallReturnVar(operands) ==
    IF \E i \in 1..Len(operands) : operands[i] = Sym("->")
    THEN IF IndexOf(operands, Sym("->")) < Len(operands)
         THEN operands[IndexOf(operands, Sym("->")) + 1] ELSE NoReturnVar
    ELSE IF Len(operands) > 2 THEN Last(operands)
    ELSE NoReturnVar

\* lines 503-516: the check of the arguments against the parameters, in order
RECURSIVE CallArgErrors(_, _, _, _, _)
CallArgErrors(decls, an, args, params, line_num) ==
    IF args = <<>> \/ params = <<>> THEN NoError
    ELSE LET arg == Head(args)
             inferred == _infer_type(decls, an, arg)
             probe == inferred = NoneV /\ ~_is_literal(arg)
             arg_type == IF probe THEN _get_type(decls, an, arg) ELSE inferred
         IN  IF probe /\ _check_variable_exists(decls, an, arg, line_num) # NoError
             THEN Undefined(line_num)
             ELSE IF arg_type # NoneV /\ arg_type # Head(params)[2]
             THEN TypeMismatch(line_num)
             ELSE CallArgErrors(decls, an, Tail(args), Tail(params), line_num)

\* _handle_call
_handle_call(decls, an, operands, line_num) ==
    IF operands = <<>> THEN CompilerError("SYNTAX_ERROR", line_num)
    ELSE
    LET args == CallArgs(operands)
        return_var == CallReturnVar(operands)
        func_decl == _get_decl(decls, an, operands[1])
    IN  IF func_decl.kind # "function" THEN Undefined(line_num)
        ELSE IF Len(args) # Len(func_decl.params) THEN CompilerError("INVALID_OPERAND", line_num)
        ELSE IF CallArgErrors(decls, an, args, func_decl.params, line_num) # NoError
        THEN CallArgErrors(decls, an, args, func_decl.params, line_num)
        ELSE IF return_var = NoReturnVar THEN NoError
        ELSE IF func_decl.return_type = "void" THEN TypeMismatch(line_num)
        ELSE LET var_type == _get_type(decls, an, return_var)
             IN  FirstError(<<_check_variable_exists(decls, an, return_var, line_num),
                              _check_const_assignment(decls, an, return_var, line_num),
                              IF var_type # NoneV /\ var_type # func_decl.return_type
                              THEN TypeMismatch(line_num) ELSE NoError>>)

\* lines 848-866: READ and ERROR are bound to a wrapper that calls itself
SelfCallingHandlers == {"READ", "ERROR"}

\* _process_instruction: the analyzer, the declaration table and the error after
\* one instruction
_process_instruction(decls, an, ins) ==
    LET op == ins.op
        operands == ins.operands
        line_num == ins.line
        check(err) == [an |-> an, decls |-> decls, err |-> err]
        both(r) == [an |-> an, decls |-> r.decls, err |-> r.err]
    IN  CASE op = "FNDEF" -> _handle_fndef(decls, an, operands, line_num)
          [] op = "INDENT" ->
                [an |-> [an EXCEPT !.func_depth =
                            IF an.current_function # NoneV THEN @ + 1 ELSE @],
                 decls |-> decls, err |-> NoError]
          [] op = "DEDENT" ->
                LET depth == IF an.func_depth - 1 > 0 THEN an.func_depth - 1 ELSE 0
                IN  [an |-> IF depth = 0
                            THEN [current_function |-> NoneV, func_depth |-> 0,
                                  return_type |-> NoneV]
                            ELSE [an EXCEPT !.func_depth = depth],
                     decls |-> decls, err |-> NoError]
          [] op \in {"FOR", "WHILE"} -> check(_handle_loop_start(decls, an, op, operands, line_num))
          [] op = "MOV" -> check(_handle_mov(decls, an, operands, line_num))
          [] op = "PTR" -> both(_handle_pointer_operations(decls, an, op, operands, line_num))
          [] op \in ArithOps -> check(_handle_arithmetic(decls, an, operands, line_num))
          [] op \in {"INC", "DEC"} -> check(_handle_inc_dec(decls, an, operands, line_num))
          [] op \in {"IF", "ELIF", "ELSE"} ->
                check(_handle_if_elif_else(decls, an, op, operands, line_num))
          [] op = "CALL" -> check(_handle_call(decls, an, operands, line_num))
          [] op = "RET" ->
                check(FirstError(<<_handle_ret(decls, an, operands, line_num),
                                   IF HasReturnType(an)
                                   THEN _check_return_type(decls, an, operands, line_num)
                                   ELSE NoError>>))
          [] op \in {"PRINT", "PRINTSTR"} -> check(_handle_print(decls, an, operands, line_num))
          [] op = "ARR" -> both(_handle_arr(decls, an, operands, line_num))
          [] op \in {"PUSH", "POP"} -> check(_handle_push_pop(decls, an, op, operands, line_num))
          [] op = "LEN" -> check(_handle_len(decls, an, operands, line_num))
          [] op \in SelfCallingHandlers -> check(Uncategorized("RecursionError", line_num))
          [] OTHER -> check(NoError)      \* no handler: CONST, PRINTARR, IMPORT, ...

InitialAnalyzer == [current_function |-> NoneV, func_depth |-> 0, return_type |-> NoneV]

\* analyze(): the validator run over a whole stream, stopping at the first error
RECURSIVE AnalyzeFrom(_, _, _, _)
AnalyzeFrom(decls, an, stream, i) ==
    IF i > Len(stream) THEN [an |-> an, decls |-> decls, err |-> NoError, at |-> 0]
    ELSE LET r == _process_instruction(decls, an, stream[i])
         IN  IF r.err # NoError THEN [an |-> r.an, decls |-> r.decls, err |-> r.err, at |-> i]
             ELSE AnalyzeFrom(r.decls, r.an, stream, i + 1)

validate_const_and_types(stream, decls) == AnalyzeFrom(decls, InitialAnalyzer, stream, 1)

----------------------------------------------------------------------------
(* Source programs *)

Line(indent, op, operands) == [indent |-> indent, op |-> op, operands |-> operands, ret |-> ""]

\* Lines of straight-line arithmetic at the top level
OptimizerLines ==
    { Line(0, "MOV", <<Ty("int"), Id("a"), Lit(2)>>),
      Line(0, "MOV", <<Ty("int"), Id("b"), Lit(0)>>),
      Line(0, "MOV", <<Id("b"), Lit(5)>>),
      Line(0, "MOV", <<Lit(5), Lit(0)>>),
      Line(0, "MUL", <<Id("a"), Lit(2), Id("b")>>),
      Line(0, "MUL", <<Lit(1), Lit(3), Id("b")>>),
      Line(0, "DIV", <<Lit(4), Lit(0), Id("c")>>),
      Line(0, "MOD", <<Lit(5), Lit(3), Id("c")>>),
      Line(0, "SUB", <<Id("b"), Lit(2), Id("c")>>),
      Line(0, "ADD", <<Lit(1), Lit(2), Id("a")>>),
      Line(0, "ADD", <<Id("a"), Lit(1), Id("b")>>),
      Line(0, "ADD", <<Id("b"), Lit(1), Id("a")>>),
      Line(0, "PRINT", <<Id("b")>>) }

\* Lines whose folding feeds later lines, with a cyclic redefinition of a and b
ChainLines ==
    { Line(0, "ADD", <<Lit(1), Lit(2), Id("a")>>),
      Line(0, "ADD", <<Id("a"), Lit(1), Id("b")>>),
      Line(0, "ADD", <<Id("b"), Lit(1), Id("a")>>),
      Line(0, "MUL", <<Lit(1), Id("a"), Id("b")>>),
      Line(0, "DIV", <<Id("a"), Lit(0), Id("c")>>),
      Line(0, "MOV", <<Ty("int"), Id("a"), Lit(2)>>),
      Line(0, "PRINT", <<Id("b")>>) }

\* Scenario B of the specification
ScenarioB ==
    << Line(0, "MOV", <<Ty("int"), Id("a"), Lit(2)>>),
       Line(0, "MUL", <<Id("a"), Lit(2), Id("b")>>),
       Line(0, "PRINT", <<Id("b")>>) >>

\* Scenario C of the specification
ScenarioC ==
    << Line(0, "MOV", <<Ty("int"), Id("a"), Lit(5)>>),
       Line(0, "MOV", <<Ty("int"), Id("b"), Lit(0)>>),
       Line(0, "DIV", <<Id("a"), Id("b"), Id("c")>>) >>

\* Statements about declared, const and undeclared names
ValidatorLines ==
    { Line(0, "CONST", <<Ty("int"), Id("x"), Lit(5)>>),
      Line(0, "MOV", <<Id("x"), Lit(10)>>),
      Line(0, "MOV", <<Ty("int"), Id("y"), Lit(1)>>),
      Line(0, "MOV", <<Ty("string"), Id("s"), Str("hi")>>),
      Line(0, "MOV", <<Id("y"), Id("zz")>>),
      Line(0, "ADD", <<Id("y"), Lit(1), Id("x")>>),
      Line(0, "ADD", <<Id("zz"), Lit(1), Id("y")>>),
      Line(0, "ADD", <<Id("s"), Lit(1), Id("y")>>),
      Line(0, "ADD", <<Id("y"), Lit(2), Id("y")>>),
      Line(0, "PRINT", <<Id("zz")>>),
      Line(0, "PRINT", <<Id("y")>>) }

\* FN name(params) [-> ret]:   and   CALL name(args) [-> ret]
FnLine(name, params, ret) ==
    [indent |-> 0, op |-> "FN", operands |-> <<Id(name)>> \o params, ret |-> ret]
CallLine(name, args, ret) ==
    [indent |-> 0, op |-> "CALL", operands |-> <<Id(name)>> \o args, ret |-> ret]

\* Two functions, one returning int and one returning nothing, and the head of a
\* third whose body makes the calls
CallHeader ==
    << FnLine("add", <<Ty("int"), Id("a"), Ty("int"), Id("b")>>, "int"),
       Line(4, "RET", <<Id("a")>>),
       FnLine("h", <<Ty("int"), Id("a")>>, ""),
       Line(4, "PRINT", <<Id("a")>>),
       FnLine("m", <<>>, "") >>

CallLines ==
    { Line(0, "MOV", <<Ty("int"), Id("r"), Lit(0)>>),
      Line(0, "MOV", <<Ty("string"), Id("s"), Str("x")>>),
      CallLine("add", <<Lit(2), Lit(3)>>, "r"),
      CallLine("add", <<Lit(2), Lit(3)>>, "s"),
      CallLine("add", <<Lit(2), Lit(3)>>, ""),
      CallLine("add", <<Lit(2)>>, "r"),
      CallLine("add", <<Str("x"), Lit(3)>>, "r"),
      CallLine("nosuch", <<Lit(1)>>, "r"),
      CallLine("h", <<Lit(1)>>, "r"),
      CallLine("h", <<Lit(1)>>, ""),
      CallLine("h", <<>>, "r"),
      CallLine("h", <<>>, "s") }

\* Statements of every kind of handler binding: direct, missing and self-calling
HandlerLines ==
    { Line(0, "MOV", <<Ty("int"), Id("y"), Lit(1)>>),
      Line(0, "READ", <<Id("y")>>),
      Line(0, "ERROR", <<Lit(5), Str("boom")>>),
      Line(0, "ARR", <<Ty("Aint"), Id("y"), Lit(3)>>),
      Line(0, "ARR", <<Ty("Aint"), Id("a"), Lit(3)>>),
      Line(0, "PRINT", <<Id("y")>>) }

\* Statements at several depths, some opening a function
IndentLines ==
    {Line(i, "PRINT", <<Lit(1)>>) : i \in {0, 2, 4, 8}}
        \cup {Line(i, "FN", <<Id("f")>>) : i \in {0, 4}}

\* One PRINT line whose operands are given as text over a small alphabet
Alphabet == {"a", " ", "/", "\""}
TextLines ==
    UNION {{[indent |-> 0, op |-> "PRINT", text |-> t] : t \in [1..len -> Alphabet]}
               : len \in 0..MaxText}

\* Scenario E of the specification, with the largest int of the model
ScenarioE ==
    << Line(0, "MOV", <<Ty("int"), Id("x"), Lit(INT_MAX)>>),
       Line(0, "ADD", <<Id("x"), Lit(1), Id("y")>>) >>

\* Values at and around the ends of the range of int
EdgeValues == {INT_MIN, INT_MIN + 1, -1, 0, 1, 2, INT_MAX - 1, INT_MAX}

\* main with one arithmetic instruction on two int variables into a declared third
ArithmeticProgram(op, a, b) ==
    << Line(0, "FN", <<Id("main")>>),
       Line(4, "MOV", <<Ty("int"), Id("x"), Lit(a)>>),
       Line(4, "MOV", <<Ty("int"), Id("z"), Lit(b)>>),
       Line(4, "MOV", <<Ty("int"), Id("y"), Lit(0)>>),
       Line(4, op, <<Id("x"), Id("z"), Id("y")>>) >>
ArithmeticPrograms ==
    {ArithmeticProgram(op, a, b) :
        op \in {"ADD", "SUB", "MUL", "DIV", "MOD"}, a \in EdgeValues, b \in EdgeValues}

\* Scenario D of the specification: a function of two int parameters returning
\* their sum, and a caller that stores the result of calling it with 2 and 3 in r
ScenarioD(name, caller) ==
    << FnLine(name, <<Ty("int"), Id("a"), Ty("int"), Id("b")>>, "int"),
       Line(4, "MOV", <<Ty("int"), Id("sum"), Lit(0)>>),
       Line(4, "ADD", <<Id("a"), Id("b"), Id("sum")>>),
       Line(4, "RET", <<Id("sum")>>),
       FnLine(caller, <<>>, ""),
       Line(4, "MOV", <<Ty("int"), Id("r"), Lit(0)>>),
       [CallLine(name, <<Lit(2), Lit(3)>>, "r") EXCEPT !.indent = 4] >>
ScenarioDPrograms ==
    {ScenarioD(name, caller) : name \in {"add", "f", "plus"}, caller \in {"main", "m"}}

\* Programs whose only function is main, with and without a RET
MainPrograms ==
    LET head(ret, v) == << FnLine("main", <<>>, ret),
                           Line(4, "MOV", <<Ty("int"), Id("r"), Lit(v)>>) >>
    IN  UNION {{head(ret, v), head(ret, v) \o <<Line(4, "RET", <<Id("r")>>)>>,
                head(ret, v) \o <<Line(4, "RET", <<Lit(v)>>)>>} :
                    ret \in {"", "int"}, v \in {0, 3}}

\* The lines that open a block inside a function body: IF, WHILE and FOR
BlockOpeners ==
    { Line(4, "IF", <<Id("x"), Sym(">"), Id("0:")>>),
      Line(4, "WHILE", <<Id("x"), Sym(">"), Id("0:")>>),
      Line(4, "FOR", <<Id("x"), Lit(1), Id(".."), Id("3:")>>) }

\* A function whose body declares x and holds one block, with or without an
\* ELSE branch after it and a statement of the function after the blocks
BlockProgram(name, opener, else_branch, tail) ==
    << FnLine(name, <<>>, ""),
       Line(4, "MOV", <<Ty("int"), Id("x"), Lit(1)>>),
       opener,
       Line(8, "PRINT", <<Id("x")>>) >>
      \o (IF else_branch THEN <<Line(4, "ELSE", <<>>), Line(8, "PRINT", <<Id("x")>>)>> ELSE <<>>)
      \o (IF tail THEN <<Line(4, "PRINT", <<Id("x")>>)>> ELSE <<>>)
BlockPrograms ==
    {BlockProgram(name, opener, else_branch, tail) :
        name \in {"main", "f"}, opener \in BlockOpeners,
        else_branch \in BOOLEAN, tail \in BOOLEAN}

\* Arithmetic on literals and on declared variables, for the body of a function
\* that declares a and b
FoldLines ==
    { Line(0, "ADD", <<Lit(1), Lit(2), Id("a")>>),
      Line(0, "DIV", <<Lit(4), Lit(2), Id("b")>>),
      Line(0, "MUL", <<Lit(1), Id("b"), Id("a")>>),
      Line(0, "MUL", <<Lit(2), Id("b"), Id("a")>>),
      Line(0, "ADD", <<Id("b"), Lit(1), Id("a")>>),
      Line(0, "PRINT", <<Id("a")>>) }
FoldHeader ==
    << FnLine("f", <<>>, ""),
       Line(4, "MOV", <<Ty("int"), Id("a"), Lit(0)>>),
       Line(4, "MOV", <<Ty("int"), Id("b"), Lit(2)>>) >>

\* One program for each stage that can raise: the lexer (a dedent to a level
\* never opened), the optimizer (a literal division by zero) and the validator
\* (an undeclared destination)
RaisingPrograms ==
    { << Line(4, "PRINT", <<Lit(1)>>), Line(2, "PRINT", <<Lit(1)>>) >>,
      << Line(0, "DIV", <<Lit(1), Lit(0), Id("c")>>) >>,
      << Line(0, "ADD", <<Id("s"), Lit(1), Id("y")>>) >> }

Programs(lines) == UNION {[1..len -> lines] : len \in 0..MaxLen}

\* The body, one level deep, of a function f without parameters
RECURSIVE Indented(_)
Indented(body) ==
    IF body = <<>> THEN <<>>
    ELSE <<[Head(body) EXCEPT !.indent = 4]>> \o Indented(Tail(body))

InFunction(body) == <<Line(0, "FN", <<Id("f")>>)>> \o Indented(body)

----------------------------------------------------------------------------
(* The code generator: src/codegen.py.  A line of C is kept with its text    *)
(* and with a reading of it: what kind of statement it is and the operands   *)
(* it was made from.  The fixed runtime preamble and the declarations of the *)
(* global variables, which come before the functions, are not rendered.      *)

\* The text of an operand as the generator reads it: the optimizer writes a
\* folded value with str(float), an integral value v as "v.0".
CText(t) ==
    IF t.k = "flt" /\ t.s # "-" /\ t.d = 1 THEN ToString(t.n) \o ".0" ELSE Text(t)

\* A line of generated C
CLine(text, kind, args, n) == [text |-> text, kind |-> kind, args |-> args, n |-> n]

Digits == {"0", "1", "2", "3", "4", "5", "6", "7", "8", "9"}
\* the characters of [A-Za-z0-9_] in the order of their code points
IdentifierChars ==
    << "0", "1", "2", "3", "4", "5", "6", "7", "8", "9",
       "A", "B", "C", "D", "E", "F", "G", "H", "I", "J", "K", "L", "M",
       "N", "O", "P", "Q", "R", "S", "T", "U", "V", "W", "X", "Y", "Z", "_",
       "a", "b", "c", "d", "e", "f", "g", "h", "i", "j", "k", "l", "m",
       "n", "o", "p", "q", "r", "s", "t", "u", "v", "w", "x", "y", "z" >>
Range(s) == {s[i] : i \in 1..Len(s)}

Char(text, i) == SubSeq(text, i, i)
Chars(text) == {Char(text, i) : i \in 1..Len(text)}
StartsWith(text, prefix) ==
    Len(prefix) <= Len(text) /\ SubSeq(text, 1, Len(prefix)) = prefix
EndsWith(text, suffix) ==
    Len(suffix) <= Len(text)
    /\ SubSeq(text, Len(text) - Len(suffix) + 1, Len(text)) = suffix

\* text.strip(), as far as startswith looks: without the leading blanks
RECURSIVE LStrip(_)
LStrip(text) ==
    IF Len(text) > 0 /\ Char(text, 1) = " " THEN LStrip(SubSeq(text, 2, Len(text)))
    ELSE text

\* text.replace(c, to) for one character c
RECURSIVE Replace(_, _, _)
Replace(text, c, to) ==
    IF Len(text) = 0 THEN ""
    ELSE (IF Char(text, 1) = c THEN to ELSE Char(text, 1))
             \o Replace(SubSeq(text, 2, Len(text)), c, to)

\* sep.join(texts)
RECURSIVE Join(_, _)
Join(texts, sep) ==
    IF texts = <<>> THEN ""
    ELSE IF Len(texts) = 1 THEN texts[1]
    ELSE texts[1] \o sep \o Join(Tail(texts), sep)

RECURSIVE CTexts(_)
CTexts(operands) ==
    IF operands = <<>> THEN <<>> ELSE <<CText(Head(operands))>> \o CTexts(Tail(operands))

\* lines 5, 31-33: IDENTIFIER_SANITIZE_RE.sub('_', name)
RECURSIVE sanitize_identifier(_)
sanitize_identifier(name) ==
    IF Len(name) = 0 THEN ""
    ELSE (IF Char(name, 1) \in Range(IdentifierChars) THEN Char(name, 1) ELSE "_")
             \o sanitize_identifier(SubSeq(name, 2, Len(name)))

\* line 6: IDENTIFIER_VALIDATE_RE.match(name)
IsIdentifier(name) ==
    /\ Len(name) > 0
    /\ Char(name, 1) \in Range(IdentifierChars) \ Digits
    /\ Chars(name) \subseteq Range(IdentifierChars)

\* lines 36-41: float(token) succeeds.  Of the texts that are identifiers only the
\* words for infinity and for NaN are numbers; otherwise the digit strings are.
is_number(token) ==
    \/ token \in {"inf", "Inf", "INF", "nan", "NaN", "NAN", "infinity", "Infinity"}
    \/ (Len(token) > 0 /\ Chars(token) \subseteq Digits)

\* sorted(names): by code point, which the generator declares locals in
Rank(c) == CHOOSE i \in 1..Len(IdentifierChars) : IdentifierChars[i] = c
RECURSIVE Before(_, _)
Before(a, b) ==
    IF Len(a) = 0 THEN Len(b) > 0
    ELSE IF Len(b) = 0 THEN FALSE
    ELSE IF Char(a, 1) = Char(b, 1)
         THEN Before(SubSeq(a, 2, Len(a)), SubSeq(b, 2, Len(b)))
    ELSE Rank(Char(a, 1)) < Rank(Char(b, 1))
RECURSIVE Sorted(_)
Sorted(names) ==
    IF names = {} THEN <<>>
    ELSE LET first == CHOOSE a \in names : \A b \in names \ {a} : Before(a, b)
         IN  <<first>> \o Sorted(names \ {first})

\* dict[key] = value, and dict.setdefault(key, value)
Set(dict, key, value) == (key :> value) @@ dict
SetDefault(dict, key, value) == IF key \in DOMAIN dict THEN dict ELSE Set(dict, key, value)
Get(dict, key, default) == IF key \in DOMAIN dict THEN dict[key] ELSE default
EmptyDict == [key \in {} |-> ""]

\* lines 285-290
get_c_type(z_type) ==
    IF EndsWith(z_type, "*") THEN z_type
    ELSE IF z_type = "string" THEN "const char*" ELSE z_type

\* lines 277-282
is_const(decls, scope, name) ==
    IF TupleKey(scope, name) \in DOMAIN decls THEN decls[TupleKey(scope, name)].const
    ELSE IF TupleKey(NoneV, name) \in DOMAIN decls THEN decls[TupleKey(NoneV, name)].const
    ELSE FALSE

\* .get("type", "double") of a declaration: a function's has no type
TypeOr(decl) == IF decl.kind = "function" THEN "double" ELSE decl.type

\* lines 293-301
get_var_type(decls, scope, name) ==
    IF name \in {"true", "false"} THEN "bool"
    ELSE IF TupleKey(scope, name) \in DOMAIN decls THEN TypeOr(decls[TupleKey(scope, name)])
    ELSE IF TupleKey(NoneV, name) \in DOMAIN decls THEN TypeOr(decls[TupleKey(NoneV, name)])
    ELSE "double"

\* lines 322-326, 475-483: the parameters among the operands of an FNDEF
ParamsOf(o) ==
    IF Len(o) > 1 /\ Last(o) \in types_set THEN SubSeq(o, 2, Len(o) - 1) ELSE Tail(o)

\* lines 331-341: the types of the parameters, or the error for an untyped one
RECURSIVE TrackParams(_, _)
TrackParams(variable_types, params) ==
    IF params = <<>> THEN [vt |-> variable_types, err |-> NoError]
    ELSE IF Len(params) >= 2 /\ params[1] \in types_set
    THEN TrackParams(Set(variable_types, params[2], params[1]), Drop(params, 2))
    ELSE [vt |-> variable_types, err |-> CompilerError("TYPE_ERROR", 0)]

\* lines 382-400: the type inferred for the result of an arithmetic instruction
ResultType(variable_types, op, a, b, res) ==
    IF res \in DOMAIN variable_types THEN variable_types[res]
    ELSE LET a_type == Get(variable_types, a, "double")
             b_type == Get(variable_types, b, "double")
         IN  IF a_type = "int" /\ b_type = "int" /\ op # "DIV" THEN "int"
             ELSE IF a_type = "double" \/ b_type = "double" THEN "double"
             ELSE IF a_type = "bool" \/ b_type = "bool" THEN "int"
             ELSE "double"

\* lines 306-416: the first loop.  Its state: variable_types, local_vars,
\* function_params, the declaration table, current_function, func_depth.
Collect(p, ins) ==
    LET o == CTexts(ins.operands)
        op == ins.op
        typed == Len(o) >= 2 /\ o[1] \in types_set
        after ==
            IF op = "MOV" /\ typed
            THEN [p EXCEPT !.vt = SetDefault(@, o[2], o[1])]
            ELSE IF op = "CONST" /\ typed
            THEN [p EXCEPT !.decls = Put(@, TupleKey(p.cur, o[2]), VarDecl(TRUE, o[1], ins.line)),
                           !.vt = SetDefault(@, o[2], o[1])]
            ELSE IF op \in {"ADD", "SUB", "MUL", "DIV", "MOD"} /\ Len(o) = 3
            THEN [p EXCEPT !.vt = SetDefault(@, o[3], ResultType(p.vt, op, o[1], o[2], o[3]))]
            ELSE p
        dests ==
            IF op \in {"MOV", "CONST"} /\ typed THEN {o[2]}
            ELSE IF op = "MOV" /\ Len(o) = 2 THEN {o[1]}
            ELSE IF op \in {"ADD", "SUB", "MUL", "DIV", "MOD"} /\ Len(o) = 3 THEN {o[3]}
            ELSE {}
        locals == {sanitize_identifier(d) :
                     d \in {e \in dests : e \notin Range(p.fp[p.cur])}}
    IN  IF p.cur = NoneV THEN after
        ELSE [after EXCEPT !.lv = Set(@, p.cur,
                 @[p.cur] \cup {d \in locals : ~is_number(d) /\ IsIdentifier(d)})]

FirstLoopStep(p, ins) ==
    LET o == CTexts(ins.operands) IN
    IF ins.op = "FNDEF"
    THEN LET r == TrackParams(p.vt, ParamsOf(o))
         IN  [p EXCEPT !.cur = o[1], !.depth = 0,
                       !.fp = Set(@, o[1], ParamsOf(o)),
                       !.lv = Set(@, o[1], {}),
                       !.vt = r.vt, !.err = r.err]
    ELSE IF p.cur # NoneV /\ ins.op = "INDENT" THEN [p EXCEPT !.depth = @ + 1]
    ELSE IF p.cur # NoneV /\ ins.op = "DEDENT"
    THEN [p EXCEPT !.depth = IF @ > 1 THEN @ - 1 ELSE 0,
                   !.cur = IF p.depth > 1 THEN @ ELSE NoneV]
    ELSE IF p.cur # NoneV \/ ins.op = "MOV" THEN Collect(p, ins)
    ELSE p

RECURSIVE FirstLoop(_, _, _)
FirstLoop(stream, i, p) ==
    IF i > Len(stream) \/ p.err # NoError THEN p
    ELSE FirstLoop(stream, i + 1, FirstLoopStep(p, stream[i]))

\* lines 9-28: the C parameter list, or the error for an untyped parameter
RECURSIVE format_parameters(_)
format_parameters(params) ==
    IF params = <<>> THEN [out |-> <<>>, err |-> NoError]
    ELSE IF Len(params) >= 2 /\ params[1] \in types_set
    THEN LET rest == format_parameters(Drop(params, 2))
             c_type == IF params[1] = "string" THEN "const char*" ELSE params[1]
         IN  [out |-> <<c_type \o " " \o sanitize_identifier(params[2])>> \o rest.out,
              err |-> rest.err]
    ELSE [out |-> <<>>, err |-> CompilerError("TYPE_ERROR", 0)]


ArithmeticSymbol ==
    [ADD |-> "+", SUB |-> "-", MUL |-> "*", DIV |-> "/", MOD |-> "%"]

\* lines 49-77: the lines for res_var = a operation b, guarded for +, -, *
add_overflow_check(prefix, operation, a, b, res_var, line_num) ==
    LET ta == CText(a)
        tb == CText(b)
        args == <<Id(res_var), a, b, Id(operation)>>
    IN  IF operation \in {"+", "-", "*"}
        THEN << CLine(prefix \o "{", "open", <<>>, line_num),
                CLine(prefix \o "    long long _temp = (long long)" \o ta \o " " \o operation
                          \o " (long long)" \o tb \o ";", "accumulate", args, line_num),
                CLine(prefix \o "    if (_temp > INT_MAX || _temp < INT_MIN) {",
                      "if_overflow", <<>>, line_num),
                CLine(prefix \o "        error_exit(" \o ToString(ErrorCode.OVERFLOW)
                          \o ", \"Integer overflow in " \o operation \o " operation at line "
                          \o ToString(line_num) \o "\");",
                      "error_exit", <<Lit(ErrorCode.OVERFLOW), Id(operation)>>, line_num),
                CLine(prefix \o "    }", "close", <<>>, line_num),
                CLine(prefix \o "    " \o res_var \o " = " \o ta \o " " \o operation \o " "
                          \o tb \o ";", "compute", args, line_num),
                CLine(prefix \o "}", "close", <<>>, line_num) >>
        ELSE << CLine(prefix \o res_var \o " = " \o ta \o " " \o operation \o " " \o tb
                          \o ";", "compute", args, line_num) >>

\* lines 109-272: the functions the runtime preamble defines
PreambleHelpers ==
    {"array_create_with_capacity", "array_create", "array_free", "array_resize",
     "array_push", "array_pop", "array_length", "array_get", "print_array",
     "print_int", "print_bool", "print_str", "print_ptr", "error_exit",
     "read_double", "read_int", "read_str"}

\* lines 113-118: what the headers the preamble includes declare, as far as
\* emitted statements use it
LibraryFunctions == {"printf", "strdup", "free", "sizeof"}

\* indent * indent_level
RECURSIVE Prefix(_)
Prefix(indent_level) == IF indent_level = 0 THEN "" ELSE "    " \o Prefix(indent_level - 1)

\* any(line.strip().startswith(start) for line in c_lines), for some start
Redeclared(lines, starts) ==
    \E i \in 1..Len(lines) : \E start \in starts : StartsWith(LStrip(lines[i].text), start)

\* the initial value by type
DefaultValue(var_type) ==
    CASE var_type = "string" -> "NULL"
      [] var_type = "int" -> "0"
      [] var_type = "bool" -> "false"
      [] OTHER -> "0.0"

IsQuoted(text) == StartsWith(text, "\"") /\ EndsWith(text, "\"")

\* str.isdigit()
IsDigits(text) == Len(text) > 0 /\ Chars(text) \subseteq Digits

\* text.replace('.', '', 1): without its first dot
RECURSIVE DropFirstDot(_)
DropFirstDot(text) ==
    IF Len(text) = 0 THEN ""
    ELSE IF Char(text, 1) = "." THEN SubSeq(text, 2, Len(text))
    ELSE Char(text, 1) \o DropFirstDot(SubSeq(text, 2, Len(text)))

\* lines 488-506: the declarations of the locals of a function, in sorted order
RECURSIVE DeclareLocals(_, _, _, _)
DeclareLocals(decls, raw_name, names, prefix) ==
    IF names = <<>> THEN <<>>
    ELSE LET var == Head(names)
             var_type == get_var_type(decls, raw_name, var)
             rest == DeclareLocals(decls, raw_name, Tail(names), prefix)
         IN  IF is_const(decls, raw_name, var) THEN rest
             ELSE <<CLine(prefix \o "    " \o get_c_type(var_type) \o " " \o var \o " = "
                              \o DefaultValue(var_type) \o ";",
                          "local", <<Id(var), Ty(var_type)>>, 0)>> \o rest

\* lines 748-788: the call of a print helper for one operand
PrintLine(prefix, variable_types, tok, line_num) ==
    LET operand == CText(tok)
        var_type == variable_types[operand]
        helper ==
            IF IsQuoted(operand) THEN "print_str(" \o operand \o ");"
            ELSE IF operand \in DOMAIN variable_types
            THEN (CASE var_type = "int" -> "print_int("
                    [] var_type = "bool" -> "print_bool("
                    [] var_type = "string" -> "print_str("
                    [] var_type \in {"float", "double"} -> "print_double("
                    [] var_type \notin {"int", "bool", "string", "float", "double"}
                         /\ EndsWith(var_type, "*") -> "print_ptr("
                    [] OTHER -> "print_str(") \o operand \o ");"
            ELSE IF \/ IsDigits(DropFirstDot(operand))
                    \/ (StartsWith(operand, "-")
                        /\ IsDigits(DropFirstDot(SubSeq(operand, 2, Len(operand)))))
            THEN (IF {".", "e", "E"} \cap Chars(operand) # {}
                  THEN "print_double(" ELSE "print_int(") \o operand \o ");"
            ELSE IF operand = "true" THEN "print_bool(1);"
            ELSE IF operand = "false" THEN "print_bool(0);"
            ELSE "print_str(\"" \o operand \o "\");"
    IN  CLine(prefix \o helper, "print", <<tok>>, line_num)

RECURSIVE PrintLines(_, _, _, _)
PrintLines(prefix, variable_types, operands, line_num) ==
    IF operands = <<>> THEN <<>>
    ELSE <<PrintLine(prefix, variable_types, Head(operands), line_num)>>
             \o PrintLines(prefix, variable_types, Tail(operands), line_num)

ArrayTypeMap ==
    [Aint |-> <<"int", "int">>, Afloat |-> <<"float", "float">>,
     Adouble |-> <<"double", "double">>, Abool |-> <<"bool", "bool">>,
     Astring |-> <<"const char*", "string">>]

\* The instructions whose translation is modelled: straight-line statements,
\* functions and calls, arrays created empty or from one value.
GeneratorCovers(ins) ==
    LET o == CTexts(ins.operands) IN
    /\ ins.op \in {"FNDEF", "INDENT", "DEDENT", "MOV", "CONST", "ADD", "SUB", "MUL", "DIV",
                   "MOD", "PRINT", "ERROR", "RET", "CALL", "ARR", "READ", "INC", "DEC",
                   "IF", "ELIF", "ELSE", "WHILE", "FOR"}
    /\ ins.op = "FOR" /\ Len(o) >= 4 => o[3] = ".."
    /\ ins.op = "MOV" /\ Len(o) = 2
         => ~StartsWith(o[1], "*") /\ {"[", "]"} \cap Chars(o[2]) = {}
    /\ ins.op = "ARR" /\ Len(o) > 2
         => Len(o) = 3 /\ {"[", "]", ",", " "} \cap Chars(o[3]) = {} /\ o[3] # ""

\* lines 572-620: MOV with a type keyword
TypedMov(g, prefix, o, ins) ==
    LET var_type == o[1]
        dest_safe == sanitize_identifier(o[2])
        expr == IF Len(o) > 2 THEN Join(Drop(o, 2), " ") ELSE DefaultValue(var_type)
        is_redeclaration ==
            Redeclared(g.lines, {var_type \o " " \o dest_safe \o " =",
                                 "const char* " \o dest_safe \o " ="})
        text == IF is_redeclaration THEN dest_safe \o " = " \o expr \o ";"
                ELSE IF IsQuoted(expr) THEN "const char* " \o dest_safe \o " = " \o expr \o ";"
                ELSE var_type \o " " \o dest_safe \o " = " \o expr \o ";"
    IN  [g EXCEPT !.lines = Append(@, CLine(prefix \o text,
                                            IF is_redeclaration THEN "assign" ELSE "declare",
                                            <<Id(dest_safe)>> \o Drop(ins.operands, 2), ins.line)),
                  !.vt = SetDefault(@, dest_safe, var_type)]

\* lines 622-678: MOV dest expr
PlainMov(g, prefix, o, ins) ==
    LET dest_safe == sanitize_identifier(o[1])
        is_redeclaration ==
            Redeclared(g.lines, {dest_safe \o " =", "int " \o dest_safe \o " =",
                                 "double " \o dest_safe \o " =",
                                 "const char* " \o dest_safe \o " ="})
        declares == ~is_redeclaration /\ dest_safe \notin DOMAIN g.vt
    IN  [g EXCEPT !.lines = Append(@, CLine(prefix \o (IF declares THEN "int " ELSE "")
                                                \o dest_safe \o " = " \o o[2] \o ";",
                                            IF declares THEN "declare" ELSE "assign",
                                            <<Id(dest_safe), ins.operands[2]>>, ins.line)),
                  !.vt = IF declares THEN Set(@, dest_safe, "int") ELSE @]

\* lines 680-712
Const(g, prefix, o, ins) ==
    LET dest == sanitize_identifier(o[2])
        expr == IF Len(o) > 2 THEN Join(Drop(o, 2), " ") ELSE DefaultValue(o[1])
        c_type == IF o[1] = "string" THEN "const char*" ELSE "const " \o o[1]
    IN  [g EXCEPT !.lines = Append(@, CLine(prefix \o c_type \o " " \o dest \o " = " \o expr \o ";",
                                            "declare",
                                            <<Id(dest)>> \o Drop(ins.operands, 2), ins.line))]

\* lines 469-511
FnDef(g, decls, local_vars, prefix, o, ins) ==
    LET raw_name == o[1]
        is_main == raw_name = "main"
        fname == IF is_main THEN "main" ELSE "z_" \o sanitize_identifier(raw_name)
        ret_type == IF Len(o) > 1 /\ Last(o) \in types_set THEN Last(o)
                    ELSE IF is_main THEN "int" ELSE "double"
        formatted == format_parameters(ParamsOf(o))
        param_str == IF is_main THEN "void" ELSE Join(formatted.out, ", ")
        header == CLine(prefix \o get_c_type(ret_type) \o " " \o fname \o "(" \o param_str
                            \o ") {",
                        "function", <<Id(fname), Id(raw_name), Ty(get_c_type(ret_type))>>,
                        ins.line)
    IN  IF ~is_main /\ formatted.err # NoError THEN [g EXCEPT !.err = formatted.err]
        ELSE [g EXCEPT !.lines = (@ \o <<header>>)
                           \o DeclareLocals(decls, raw_name,
                                            Sorted(Get(local_vars, raw_name, {})), prefix),
                       !.stack = Append(@, raw_name),
                       !.level = @ + 1]

\* lines 513-521
Dedent(g, prefix, ins) ==
    LET indent_level == IF g.level > 1 THEN g.level - 1 ELSE 0
        closes == g.stack # <<>> /\ indent_level = 0
        return == IF closes /\ Last(g.stack) = "main"
                  THEN <<CLine(prefix \o "    return 0;", "return", <<Lit(0)>>, ins.line)>>
                  ELSE <<>>
    IN  [g EXCEPT !.level = indent_level,
                  !.stack = IF closes THEN Front(@) ELSE @,
                  !.lines = (@ \o return) \o <<CLine(prefix \o "}", "close", <<>>, ins.line)>>]

\* lines 827-842
Call(g, prefix, o, ins) ==
    LET func_name == "z_" \o sanitize_identifier(o[1])
        args == Join(SubSeq(o, 2, Len(o) - 1), ", ")
        ret_var_name == Last(o)
        target == IF ret_var_name = "_" THEN ""
                  ELSE sanitize_identifier(ret_var_name) \o " = "
    IN  [g EXCEPT !.lines = Append(@, CLine(prefix \o target \o func_name \o "(" \o args \o ");",
                                            "call",
                                            <<Id(func_name), Last(ins.operands)>>
                                                \o SubSeq(ins.operands, 2, Len(o) - 1),
                                            ins.line))]

\* lines 843-924, for an array created empty or from one value
Arr(g, prefix, o, ins) ==
    IF Len(o) < 2 THEN g
    ELSE IF o[1] \notin DOMAIN ArrayTypeMap
    THEN [g EXCEPT !.err = CompilerError("INVALID_TYPE", ins.line)]
    ELSE
    LET safe_name == sanitize_identifier(o[2])
        c_type == ArrayTypeMap[o[1]][1]
        arr_type_name == ArrayTypeMap[o[1]][2]
        create ==
            IF Len(o) > 2
            THEN <<CLine(prefix \o "Array* " \o safe_name
                             \o " = array_create_with_capacity(sizeof(" \o c_type \o "), \""
                             \o arr_type_name \o "\", 4);", "array", <<Id(safe_name)>>, ins.line),
                   CLine(prefix \o "{\n" \o prefix \o "    " \o c_type \o " _val = " \o o[3]
                             \o ";\n" \o prefix \o "    array_push(" \o safe_name
                             \o ", &_val);\n" \o prefix \o "}", "push",
                         <<Id(safe_name), ins.operands[3]>>, ins.line)>>
            ELSE <<CLine(prefix \o "Array* " \o safe_name \o " = array_create(sizeof("
                             \o c_type \o "), \"" \o arr_type_name \o "\");", "array",
                         <<Id(safe_name)>>, ins.line)>>
    IN  [g EXCEPT !.lines = @ \o create, !.vt = Set(@, o[2], o[1])]

\* lines 1007-1027
Read(g, prefix, o, ins) ==
    IF Len(o) = 3 /\ o[1] \in {"int", "double", "float", "string"}
    THEN LET dest == sanitize_identifier(o[3])
             call == CASE o[1] = "string" -> "read_str(" \o o[2] \o ");"
                       [] o[1] = "int" -> "read_int(" \o o[2] \o ", " \o dest \o ");"
                       [] OTHER -> "read_double(" \o o[2] \o ", " \o dest \o ");"
         IN  [g EXCEPT !.lines = Append(@, CLine(prefix \o dest \o " = " \o call, "read",
                                                 <<Id(dest)>>, ins.line)),
                       !.vt = SetDefault(@, o[3], o[1])]
    ELSE g

\* str.replace(old, new): the occurrences of old, taken from the left
RECURSIVE ReplaceText(_, _, _)
ReplaceText(text, old, new) ==
    IF Len(text) < Len(old) THEN text
    ELSE IF SubSeq(text, 1, Len(old)) = old
    THEN new \o ReplaceText(SubSeq(text, Len(old) + 1, Len(text)), old, new)
    ELSE SubSeq(text, 1, 1) \o ReplaceText(SubSeq(text, 2, Len(text)), old, new)

\* lines 44-46: cond.rstrip(':')
RECURSIVE sanitize_condition(_)
sanitize_condition(cond) ==
    IF EndsWith(cond, ":") THEN sanitize_condition(SubSeq(cond, 1, Len(cond) - 1)) ELSE cond

\* lines 80-100: the replacements in the order the function makes them
LogicalReplacements ==
    << <<" AND ", " && ">>, <<" OR ", " || ">>, <<" NOT ", " !">>,
       <<"AND ", "&& ">>, <<" OR", " ||">>, <<" OR", " ||">>,
       <<"NOT ", "! ">>, <<"NOT ", "! ">>,
       <<" AND", " &&">>, <<"AND", "&&">>, <<" OR", " ||">>, <<"OR", "||">>,
       <<" NOT", " !">>, <<"NOT", "!">> >>

RECURSIVE ReplaceEach(_, _, _)
ReplaceEach(text, pairs, i) ==
    IF i > Len(pairs) THEN text
    ELSE ReplaceEach(ReplaceText(text, pairs[i][1], pairs[i][2]), pairs, i + 1)

translate_logical_operators(condition) == ReplaceEach(condition, LogicalReplacements, 1)

\* lines 523-568: IF, ELIF, ELSE and WHILE emit their opening line and leave the
\* indentation level as it is; FOR emits its line when it has operands and
\* raises the level
Block(g, prefix, o, ins) ==
    LET cond == translate_logical_operators(sanitize_condition(Join(o, " ")))
        open(text) == [g EXCEPT !.lines = Append(@, CLine(prefix \o text, "block",
                                                          ins.operands, ins.line))]
        var == sanitize_identifier(o[1])
        start == IF Len(o) >= 4 THEN o[2] ELSE "0"
        end == IF Len(o) >= 4 THEN o[4] ELSE "10"
    IN  CASE ins.op = "IF" -> open("if (" \o cond \o ") { ")
          [] ins.op = "ELIF" -> open("else if (" \o cond \o ") { ")
          [] ins.op = "ELSE" ->
                IF o # <<>> /\ o # <<":">>
                THEN [g EXCEPT !.err = CompilerError("SYNTAX_ERROR", ins.line)]
                ELSE open("else { ")
          [] ins.op = "WHILE" -> open("while (" \o cond \o ") { ")
          [] OTHER ->
                [(IF o = <<>> THEN g
                  ELSE open("for (int " \o var \o " = " \o start \o "; " \o var \o " <= "
                                \o end \o "; " \o var \o "++) {"))
                     EXCEPT !.level = @ + 1]

\* lines 462-1045: one iteration of the loop that emits the functions
Emit(g, decls, local_vars, ins) ==
    LET o == CTexts(ins.operands)
        op == ins.op
        prefix == Prefix(g.level)
        line(text, kind, args) == [g EXCEPT !.lines = Append(@, CLine(prefix \o text, kind, args, ins.line))]
    IN  CASE op = "FNDEF" -> FnDef(g, decls, local_vars, prefix, o, ins)
          [] op = "DEDENT" -> Dedent(g, prefix, ins)
          [] op \in {"IF", "ELIF", "ELSE", "WHILE", "FOR"} -> Block(g, prefix, o, ins)
          [] op = "MOV" ->
                IF Len(o) >= 2 /\ o[1] \in types_set THEN TypedMov(g, prefix, o, ins)
                ELSE IF Len(o) = 2 THEN PlainMov(g, prefix, o, ins)
                ELSE g
          [] op = "CONST" ->
                IF Len(o) >= 2 /\ o[1] \in types_set THEN Const(g, prefix, o, ins) ELSE g
          [] op \in {"ADD", "SUB", "MUL", "DIV", "MOD"} ->
                IF Len(o) # 3 THEN [g EXCEPT !.err = Uncategorized("ValueError", ins.line)]
                ELSE [g EXCEPT !.lines = @ \o add_overflow_check(prefix, ArithmeticSymbol[op],
                                                 ins.operands[1], ins.operands[2],
                                                 sanitize_identifier(o[3]), ins.line)]
          [] op = "PRINT" ->
                IF o = <<>> THEN line("printf(\"\n\");", "print", <<>>)
                ELSE [g EXCEPT !.lines = @ \o PrintLines(prefix, g.vt, ins.operands, ins.line)]
          [] op = "ERROR" ->
                line("error_exit(1, \"" \o Replace(Join(o, " "), "\"", "") \o "\");",
                     "error_exit", <<Lit(1), Str(Replace(Join(o, " "), "\"", ""))>>)
          [] op = "RET" ->
                line("return " \o (IF o # <<>> THEN o[1] ELSE "0") \o ";", "return",
                     IF o # <<>> THEN <<ins.operands[1]>> ELSE <<Lit(0)>>)
          [] op = "CALL" -> Call(g, prefix, o, ins)
          [] op = "ARR" -> Arr(g, prefix, o, ins)
          [] op = "READ" -> Read(g, prefix, o, ins)
          [] op = "INC" -> line(sanitize_identifier(o[1]) \o "++;", "step", <<ins.operands[1]>>)
          [] op = "DEC" -> line(sanitize_identifier(o[1]) \o "--;", "step", <<ins.operands[1]>>)
          [] OTHER -> g

RECURSIVE SecondLoop(_, _, _, _, _)
SecondLoop(stream, i, g, decls, local_vars) ==
    IF i > Len(stream) \/ g.err # NoError THEN g
    ELSE SecondLoop(stream, i + 1, Emit(g, decls, local_vars, stream[i]), decls, local_vars)

\* lines 1046-1050: the functions still open at the end are closed
RECURSIVE CloseFunctions(_)
CloseFunctions(func_stack) ==
    IF func_stack = <<>> THEN <<>>
    ELSE (IF Last(func_stack) = "main"
          THEN <<CLine("return 0;", "return", <<Lit(0)>>, 0)>> ELSE <<>>)
             \o <<CLine("}", "close", <<>>, 0)>> \o CloseFunctions(Front(func_stack))

\* generate_c_code: the lines that follow the preamble and the globals, the
\* declaration table as the first loop leaves it, and the error raised if any
generate_c_code(stream, decls) ==
    LET p == FirstLoop(stream, 1,
                       [vt |-> EmptyDict, lv |-> EmptyDict, fp |-> EmptyDict, decls |-> decls,
                        cur |-> NoneV, depth |-> 0, err |-> NoError])
        g == SecondLoop(stream, 1,
                        [lines |-> <<>>, level |-> 0, stack |-> <<>>, vt |-> p.vt,
                         err |-> NoError],
                        p.decls, p.lv)
    IN  IF p.err # NoError THEN [lines |-> <<>>, decls |-> p.decls, err |-> p.err]
        ELSE IF g.err # NoError THEN [lines |-> <<>>, decls |-> p.decls, err |-> g.err]
        ELSE [lines |-> g.lines \o CloseFunctions(g.stack), decls |-> p.decls, err |-> NoError]

----------------------------------------------------------------------------
(* The run of the generated C.  The reading covers a function whose variables *)
(* are all of type int: declarations, assignments, arithmetic with its guard, *)
(* error_exit and return.                                                     *)

\* The value v as a two's complement number of the given width
Wrap(v, bits) ==
    LET r == v % (2 ^ bits) IN IF r >= 2 ^ (bits - 1) THEN r - 2 ^ bits ELSE r

\* (long long)a operation (long long)b, as preamble and line 65 compute it
Accumulate(operation, a, b) ==
    Wrap(CASE operation = "+" -> a + b
           [] operation = "-" -> a - b
           [] OTHER -> a * b, LongLongBits)

\* a / b and a % b of C: the quotient is truncated toward zero
Quotient(a, b) ==
    LET q == Abs(a) \div Abs(b) IN IF (a < 0) = (b < 0) THEN q ELSE -q
Remainder(a, b) == a - b * Quotient(a, b)

\* a operation b in int: its value, or none where C leaves the behaviour undefined
IntArithmetic(operation, a, b) ==
    LET exact == CASE operation = "+" -> a + b
                   [] operation = "-" -> a - b
                   [] operation = "*" -> a * b
                   [] operation = "/" -> IF b = 0 THEN INT_MAX + 1 ELSE Quotient(a, b)
                   [] OTHER -> IF b = 0 \/ (a = INT_MIN /\ b = -1) THEN INT_MAX + 1
                               ELSE Remainder(a, b)
    IN  IF exact > INT_MAX \/ exact < INT_MIN THEN <<>> ELSE <<exact>>

\* the value of an operand: a literal, or a variable (storage starts at zero)
CValue(env, tok) ==
    IF tok.k = "int" THEN tok.n ELSE IF tok.s \in DOMAIN env THEN env[tok.s] ELSE 0

\* The outcome of running the lines from line i on: how the run ends ("return",
\* "error_exit", "undefined" behaviour, a statement the reading does not cover,
\* or the end of the lines), the code returned or exited with, and the variables.
RECURSIVE Run(_, _, _, _)
Run(lines, i, env, temp) ==
    IF i > Len(lines) THEN [ends |-> "end", code |-> 0, at |-> i, env |-> env]
    ELSE
    LET l == lines[i]
        next(e) == Run(lines, i + 1, e, temp)
        stop(why, code) == [ends |-> why, code |-> code, at |-> i, env |-> env]
    IN  CASE l.kind \in {"function", "open", "close", "print"} -> next(env)
          [] l.kind = "local" -> next(Set(env, l.args[1].s, 0))
          [] l.kind \in {"declare", "assign"} ->
                IF Len(l.args) = 2 /\ l.args[2].k \in {"int", "id"}
                THEN next(Set(env, l.args[1].s, CValue(env, l.args[2])))
                ELSE stop("uncovered", 0)
          [] l.kind = "accumulate" ->
                Run(lines, i + 1, env,
                    Accumulate(l.args[4].s, CValue(env, l.args[2]), CValue(env, l.args[3])))
          [] l.kind = "if_overflow" ->
                IF temp > INT_MAX \/ temp < INT_MIN THEN next(env)
                ELSE Run(lines, i + 3, env, temp)
          [] l.kind = "error_exit" -> stop("error_exit", l.args[1].n)
          [] l.kind = "compute" ->
                LET v == IntArithmetic(l.args[4].s, CValue(env, l.args[2]), CValue(env, l.args[3]))
                IN  IF v = <<>> THEN stop("undefined", 0)
                    ELSE next(Set(env, l.args[1].s, v[1]))
          [] l.kind = "return" -> stop("return", CValue(env, l.args[1]))
          [] OTHER -> stop("uncovered", 0)

----------------------------------------------------------------------------
(* The pipeline: src/main.py compile_zlang, lines 263-274 *)

Start(program) ==
    /\ source = program
    /\ pc = "lex"
    /\ lineNo = 0
    /\ indent_stack = <<0>>
    /\ lex_function = NoneV
    /\ lex_depth = 0
    /\ instructions = <<>>
    /\ declarations = EmptyDecls
    /\ optimized = <<>>
    /\ round = 0
    /\ pass = "begin"
    /\ analyzer = InitialAnalyzer
    /\ vidx = 0
    /\ error = NoError
    /\ c_lines = <<>>
    /\ output_format = ""
    /\ backend = "idle"
    /\ c_file = "absent"
    /\ output = "absent"
    /\ status = NoStatus

Init == \E program \in Programs(OptimizerLines) \cup {ScenarioC} : Start(program)

InitChain == \E program \in Programs(ChainLines) : Start(program)

InitVal ==
    \E body \in Programs(ValidatorLines) :
        \E wrapped \in BOOLEAN : Start(IF wrapped THEN InFunction(body) ELSE body)

InitCall == \E body \in Programs(CallLines) : Start(CallHeader \o Indented(body))

\* A body at the top level, in a function f, or in each of two definitions of f
InitHandlers ==
    \E body \in Programs(HandlerLines) :
        \E program \in {body, InFunction(body), InFunction(body) \o InFunction(body)} :
            Start(program)

InitIndent == \E program \in Programs(IndentLines) : Start(program)

InitArithmetic == \E program \in ArithmeticPrograms \cup {ScenarioE} : Start(program)

InitFunctions == \E program \in ScenarioDPrograms \cup MainPrograms : Start(program)

InitPipeline ==
    \E program \in RaisingPrograms \cup ScenarioDPrograms \cup MainPrograms : Start(program)

InitBlocks == \E program \in BlockPrograms : Start(program)

InitFold == \E body \in Programs(FoldLines) : Start(FoldHeader \o Indented(body))

InitText == \E line \in TextLines : Start(<<line>>)

optVars == <<optimized, round, pass>>
lexVars == <<lineNo, indent_stack, lex_function, lex_depth, instructions>>

\* parse_z_file, one iteration of the loop over the lines (lexer.py 63-334)
LexLine ==
    /\ pc = "lex"
    /\ lineNo < Len(source)
    /\ LET line_num == lineNo + 1
           line == Tokenized(source[line_num])
           ind == LexIndent(indent_stack, lex_function, lex_depth, line.indent, line_num)
           st == LexStatement(line, ind.fn, declarations, line_num)
       IN  /\ lineNo' = line_num
           /\ indent_stack' = ind.stack
           /\ IF ind.err # NoError
              THEN /\ instructions' = instructions \o ind.out
                   /\ lex_function' = ind.fn
                   /\ lex_depth' = ind.depth
                   /\ declarations' = declarations
                   /\ error' = ind.err
                   /\ pc' = "failed"
              ELSE /\ instructions' = instructions \o ind.out \o st.instr
                   /\ lex_function' = st.fn
                   /\ lex_depth' = IF st.reset THEN 0 ELSE ind.depth
                   /\ declarations' = st.decls
                   /\ error' = st.err
                   /\ pc' = IF st.err # NoError THEN "failed" ELSE "lex"
    /\ UNCHANGED <<backVars, c_lines, status, source, optVars, analyzer, vidx>>

\* parse_z_file, end of file: the open blocks are closed (lexer.py 336-345)
LexEnd ==
    /\ pc = "lex"
    /\ lineNo = Len(source)
    /\ LET r == LexDedent(indent_stack, lex_function, lex_depth, <<>>, 0, lineNo)
       IN  /\ indent_stack' = r.stack
           /\ lex_function' = r.fn
           /\ lex_depth' = r.depth
           /\ instructions' = instructions \o r.out
    /\ pc' = "optimize"
    /\ UNCHANGED <<backVars, c_lines, status, source, lineNo, declarations, optVars, analyzer, vidx, error>>

\* optimize_instructions, lines 120-124
OptimizeBegin ==
    /\ pc = "optimize"
    /\ pass = "begin"
    /\ optimized' = instructions
    /\ IF instructions = <<>>
       THEN pc' = "validate" /\ round' = 0 /\ pass' = "end"
       ELSE pc' = pc /\ round' = 1 /\ pass' = "propagate"
    /\ UNCHANGED <<backVars, c_lines, status, source, lexVars, declarations, analyzer, vidx, error>>

\* line 128
ConstantPropagation ==
    /\ pc = "optimize"
    /\ pass = "propagate"
    /\ optimized' = constant_propagation(optimized)
    /\ pass' = "eliminate"
    /\ UNCHANGED <<backVars, c_lines, status, source, pc, lexVars, declarations, round, analyzer, vidx, error>>

\* line 129
DeadCodeElimination ==
    /\ pc = "optimize"
    /\ pass = "eliminate"
    /\ optimized' = dead_code_elimination(optimized)
    /\ pass' = "reduce"
    /\ UNCHANGED <<backVars, c_lines, status, source, pc, lexVars, declarations, round, analyzer, vidx, error>>

\* line 130
StrengthReduction ==
    /\ pc = "optimize"
    /\ pass = "reduce"
    /\ optimized' = strength_reduction(optimized)
    /\ pass' = "fold"
    /\ UNCHANGED <<backVars, c_lines, status, source, pc, lexVars, declarations, round, analyzer, vidx, error>>

\* lines 132-149: the folding pass, the early stop and the end of the round
ConstantFolding ==
    /\ pc = "optimize"
    /\ pass = "fold"
    /\ LET folded == constant_folding(optimized)
       IN  IF folded.err # NoError
           THEN /\ error' = folded.err
                /\ pc' = "failed"
                /\ UNCHANGED <<optimized, round, pass>>
           ELSE IF folded.out = optimized
           THEN /\ pc' = "validate"
                /\ pass' = "end"
                /\ UNCHANGED <<optimized, round, error>>
           ELSE /\ optimized' = folded.out
                /\ IF AnotherRound(round)
                   THEN round' = round + 1 /\ pass' = "propagate" /\ pc' = pc
                   ELSE round' = round /\ pass' = "end" /\ pc' = "validate"
                /\ error' = error
    /\ UNCHANGED <<backVars, c_lines, status, source, lexVars, declarations, analyzer, vidx>>

\* analyze(), one iteration over the optimized stream (semantics.py 39-40)
Analyze ==
    /\ pc = "validate"
    /\ vidx < Len(optimized)
    /\ LET r == _process_instruction(declarations, analyzer, optimized[vidx + 1])
       IN  /\ analyzer' = r.an
           /\ declarations' = r.decls
           /\ error' = r.err
           /\ pc' = IF r.err # NoError THEN "failed" ELSE pc
    /\ vidx' = vidx + 1
    /\ UNCHANGED <<backVars, c_lines, status, source, lexVars, optVars>>

\* validate_const_and_types returns: the stream passed validation
Validated ==
    /\ pc = "validate"
    /\ vidx = Len(optimized)
    /\ pc' = "done"
    /\ UNCHANGED <<backVars, c_lines, status, source, lexVars, declarations, optVars, analyzer, vidx, error>>

\* generate_c_code (main.py 272-274): the C for the validated stream, or its error
GenerateCode ==
    /\ pc = "done"
    /\ LET r == generate_c_code(optimized, declarations)
       IN  /\ declarations' = r.decls
           /\ error' = r.err
           /\ IF r.err # NoError
              THEN pc' = "failed" /\ pass' = "generate" /\ c_lines' = c_lines
              ELSE pc' = "generated" /\ pass' = pass /\ c_lines' = r.lines
    /\ UNCHANGED <<backVars, status, source, lexVars, optimized, round, analyzer, vidx>>

\* The C file as if the toolchain path never removed it
CleanupNever(format, file) == file

\* The C file once compile_zlang is done with the toolchain: the finally at
\* lines 405-411 and the handlers at 503-518 remove it unless the C text is
\* itself the requested output
Cleanup(format, file) == IF format # "c" THEN "absent" ELSE file

\* What the file system and the toolchain can answer
WriteOutcomes == {"written", "IOError"}
ToolchainOutcomes == {"built", "no compiler", "failed", "no output"}

\* main.py 280-309: the output format is read and the C text is written to the
\* C file; an IOError becomes FILE_WRITE_ERROR, and the handler at 503-510
\* removes what exists of the file.  With the format "c" compile_zlang returns.
WriteC ==
    /\ pc = "generated"
    /\ backend = "idle"
    /\ \E format \in {"c", "exe", "s"} : \E outcome \in WriteOutcomes :
          /\ output_format' = format
          /\ IF outcome = "written"
             THEN /\ c_file' = "present"
                  /\ backend' = IF format = "c" THEN "returned" ELSE "written"
                  /\ error' = error
             ELSE /\ c_file' = "absent"
                  /\ backend' = "failed"
                  /\ error' = CompilerError("FILE_WRITE_ERROR", 0)
    /\ UNCHANGED <<output, c_lines, status, source, pc, lexVars, declarations, optVars,
                   analyzer, vidx>>

\* main.py 314-420: find_compiler raises MISSING_DEPENDENCY when no compiler is
\* installed; the C compiler runs, and a non-zero exit or a missing output file
\* raises a CompilerError that the `except Exception` at line 399 turns into
\* UNEXPECTED_ERROR.  The C file is removed on every path.
Toolchain ==
    /\ backend = "written"
    /\ \E outcome \in ToolchainOutcomes :
          /\ c_file' = Cleanup(output_format, c_file)
          /\ output' = IF outcome = "built" THEN "present" ELSE output
          /\ backend' = IF outcome = "built" THEN "returned" ELSE "failed"
          /\ error' = CASE outcome = "built" -> error
                        [] outcome = "no compiler" -> CompilerError("MISSING_DEPENDENCY", 0)
                        [] OTHER -> CompilerError("UNEXPECTED_ERROR", 0)
    /\ UNCHANGED <<output_format, c_lines, status, source, pc, lexVars, declarations,
                   optVars, analyzer, vidx>>

\* The end of the process (main.py 626-690): the status is 0 when compile_zlang
\* returns; every exception it raises is caught by `except Exception` at line 688,
\* which ends the process with sys.exit(1).
Exit ==
    /\ status = NoStatus
    /\ pc = "failed" \/ backend \in {"returned", "failed"}
    /\ status' = IF error # NoError THEN 1 ELSE 0
    /\ UNCHANGED <<backVars, c_lines, source, pc, lexVars, declarations, optVars, analyzer,
                   vidx, error>>

Next ==
    \/ LexLine
    \/ LexEnd
    \/ OptimizeBegin
    \/ ConstantPropagation
    \/ DeadCodeElimination
    \/ StrengthReduction
    \/ ConstantFolding
    \/ Analyze
    \/ Validated
    \/ GenerateCode
    \/ WriteC
    \/ Toolchain
    \/ Exit

Spec == Init /\ [][Next]_vars
SpecVal == InitVal /\ [][Next]_vars
SpecCall == InitCall /\ [][Next]_vars
SpecHandlers == InitHandlers /\ [][Next]_vars
SpecIndent == InitIndent /\ [][Next]_vars
SpecText == InitText /\ [][Next]_vars
SpecArithmetic == InitArithmetic /\ [][Next]_vars
SpecFunctions == InitFunctions /\ [][Next]_vars
SpecBlocks == InitBlocks /\ [][Next]_vars
SpecFold == InitFold /\ [][Next]_vars
SpecPipeline == InitPipeline /\ [][Next]_vars
\* The pipeline is one sequential call chain: a stage that can run does run.
FairSpec == InitChain /\ [][Next]_vars /\ WF_vars(Next)

TypeOK ==
    /\ pc \in {"lex", "optimize", "validate", "done", "generated", "failed"}
    /\ status \in {NoStatus, 0, 1}
    /\ (pc = "generated") => \A i \in 1..Len(optimized) : GeneratorCovers(optimized[i])
    /\ round \in 0..RoundLimit
    /\ (pc = "failed" \/ backend = "failed") = (error # NoError)
    /\ output_format \in {"", "c", "exe", "s"}
    /\ backend \in {"idle", "written", "returned", "failed"}
    /\ c_file \in {"absent", "present"}
    /\ output \in {"absent", "present"}
    /\ (backend # "idle") => pc = "generated"

----------------------------------------------------------------------------
(* Reference evaluation of a straight-line stream, in the operand layout the  *)
(* lexer emits and the generator reads: MOV [type,] dest value;               *)
(* ADD/SUB/MUL/DIV/MOD a b dest; PRINT x.  Storage starts at zero.            *)

Zero == Val(0, 1, FALSE)

ValueOf(env, tok) ==
    IF is_numeric_operand(tok) THEN NumOf(tok)
    ELSE IF tok \in DOMAIN env THEN env[tok] ELSE Zero

Number(v) == <<v.n, v.d>>

RECURSIVE PrintedValues(_, _)
PrintedValues(env, operands) ==
    IF operands = <<>> THEN <<>>
    ELSE <<Number(ValueOf(env, Head(operands)))>> \o PrintedValues(env, Tail(operands))

RECURSIVE Evaluate(_, _, _, _)
Evaluate(stream, i, env, printed) ==
    IF i > Len(stream) THEN printed
    ELSE
    LET ins == stream[i]
        o == ins.operands
        set(dest, v) == Evaluate(stream, i + 1, (dest :> v) @@ env, printed)
        skip == Evaluate(stream, i + 1, env, printed)
    IN  CASE ins.op \in {"MOV", "CONST"} /\ Len(o) = 3 -> set(o[2], ValueOf(env, o[3]))
          [] ins.op \in {"MOV", "CONST"} /\ Len(o) = 2 ->
                IF IsTypeKeyword(o[1]) THEN set(o[2], Zero) ELSE set(o[1], ValueOf(env, o[2]))
          [] ins.op \in ArithOps /\ Len(o) = 3 ->
                LET a == ValueOf(env, o[1])
                    b == ValueOf(env, o[2])
                IN  CASE ins.op = "ADD" -> set(o[3], FAdd(a, b))
                      [] ins.op = "SUB" -> set(o[3], FSub(a, b))
                      [] ins.op = "MUL" -> set(o[3], FMul(a, b))
                      [] IsZero(b) -> Append(printed, <<0, 0>>)     \* the run faults
                      [] ins.op = "DIV" -> set(o[3], FDiv(a, b))
                      [] OTHER -> set(o[3], FMod(a, b))
          [] ins.op = "PRINT" ->
                Evaluate(stream, i + 1, env, printed \o PrintedValues(env, o))
          [] OTHER -> skip

Printed(stream) == Evaluate(stream, 1, [x \in {} |-> Zero], <<>>)

----------------------------------------------------------------------------
(* Properties *)

\* The lexer has returned and the validator has not started yet
Lexed == pc = "optimize" /\ pass = "begin"
\* optimize_instructions has returned a stream and the validator has not started yet
Optimized == pc = "validate" /\ vidx = 0

\* The declaration a name is meant to resolve to: the one of the enclosing
\* function if there is one, else the global one
Resolve(decls, fn, tok) ==
    IF fn # NoneV /\ TupleKey(fn, Text(tok)) \in DOMAIN decls THEN decls[TupleKey(fn, Text(tok))]
    ELSE IF TupleKey(NoneV, Text(tok)) \in DOMAIN decls THEN decls[TupleKey(NoneV, Text(tok))]
    ELSE NoDecl

\* The operands an instruction writes
WriteTargets(ins) ==
    LET o == ins.operands
    IN  CASE ins.op = "MOV" /\ Len(o) = 2 /\ ~IsTypeKeyword(o[1]) -> {o[1]}
          [] ins.op \in ArithOps /\ Len(o) = 3 -> {o[3]}
          [] ins.op = "POP" /\ Len(o) >= 2 -> {o[2]}
          [] ins.op = "LEN" /\ Len(o) = 2 -> {o[2]}
          [] ins.op = "CALL" /\ Len(o) > 2 -> {Last(o)}
          [] OTHER -> {}

\* The instruction writes a name declared const on an earlier line
WritesConst(decls, fn, ins) ==
    \E t \in WriteTargets(ins) :
        Resolve(decls, fn, t).const /\ Resolve(decls, fn, t).line < ins.line

IsConstViolation(err) == err.code = "INVALID_OPERATION"

\* C1: when validation of the lexed stream fails with a const violation, so does
\* validation of the stream optimize_instructions returns for it.
C1_ConstViolationSurvivesOptimization ==
    Optimized =>
        (IsConstViolation(validate_const_and_types(instructions, declarations).err)
            => IsConstViolation(validate_const_and_types(optimized, declarations).err))

\* C2: every instruction the validator reaches whose write target resolves (in the
\* current function, else globally) to an earlier const declaration fails
\* validation with a const violation at its line.
C2_ConstWriteRejected ==
    Lexed =>
        \A i \in 1..Len(instructions) :
            LET before == AnalyzeFrom(declarations, InitialAnalyzer,
                                      SubSeq(instructions, 1, i - 1), 1)
            IN  (before.err = NoError
                 /\ WritesConst(declarations, before.an.current_function, instructions[i]))
                => _process_instruction(before.decls, before.an, instructions[i]).err
                       = ConstViolation(instructions[i].line)

\* C3: the optimized stream prints the values the lexed stream prints.
C3_RoundTrip == Optimized => Printed(optimized) = Printed(instructions)

\* C4: optimizing the optimizer's output returns it unchanged.
C4_Idempotent ==
    Optimized =>
        LET again == optimize_instructions(optimized)
        IN  again.err = NoError /\ again.out = optimized

\* C5: the optimizer never starts a fourth round, and it always returns or raises.
C5_FixpointTermination == [](round <= 3) /\ <>(pc # "lex" /\ pc # "optimize")

\* C5 witness: the third round still folds something, so the pass bound ends the loop
C5_Witness ==
    /\ pc = "optimize" /\ pass = "fold" /\ round = 3
    /\ constant_folding(optimized).err = NoError
    /\ constant_folding(optimized).out # optimized

IsLiteralMove(ins, dest, number) ==
    /\ ins.op = "MOV" /\ Len(ins.operands) = 2
    /\ \E i, j \in 1..2 :
          /\ ins.operands[i] = dest
          /\ is_numeric_operand(ins.operands[j])
          /\ Number(NumOf(ins.operands[j])) = <<number, 1>>

\* C6: Scenario B optimizes to a literal move of 4 into b in place of the MUL,
\* and the optimized program prints 4.
C6_ScenarioB ==
    (source = ScenarioB /\ pc \notin {"lex", "optimize"}) =>
        /\ pc # "failed"
        /\ \E i \in 1..Len(optimized) : IsLiteralMove(optimized[i], Id("b"), 4)
        /\ \A i \in 1..Len(optimized) : optimized[i].op # "MUL"
        /\ Printed(optimized) = <<<<4, 1>>>>

LiteralZeroDivision(ins) ==
    /\ ins.op \in {"DIV", "MOD"} /\ Len(ins.operands) = 3
    /\ is_numeric_operand(ins.operands[1]) /\ is_numeric_operand(ins.operands[2])
    /\ IsZero(NumOf(ins.operands[2]))

\* C7: a stream holding a DIV or MOD of two literals with a zero divisor makes the
\* optimizer raise a division-by-zero error at the line of such an instruction.
C7_LiteralZeroDivisionRaises ==
    (pc \notin {"lex", "optimize"}
     /\ \E i \in 1..Len(instructions) : LiteralZeroDivision(instructions[i]))
    => /\ pc = "failed" /\ pass = "fold"
       /\ error.code = "DIVISION_BY_ZERO"
       /\ \E i \in 1..Len(instructions) :
             LiteralZeroDivision(instructions[i]) /\ instructions[i].line = error.line

\* C8: Scenario C fails at optimization with a division-by-zero error.
C8_ScenarioC ==
    (source = ScenarioC /\ pc \notin {"lex", "optimize"}) =>
        pc = "failed" /\ pass = "fold" /\ error.code = "DIVISION_BY_ZERO"

\* The type an operand is meant to have: that of the literal, or the declared one
IntendedType(decls, fn, tok) ==
    CASE tok.k = "int" -> "int"
      [] tok.k = "flt" -> "float"
      [] tok.k = "bool" -> "bool"
      [] tok.k = "str" -> "string"
      [] OTHER -> Resolve(decls, fn, tok).type

\* The instruction the validator processes next
Reaching == pc = "validate" /\ vidx < Len(optimized)
NextInstr == optimized[vidx + 1]
Outcome == _process_instruction(declarations, analyzer, NextInstr)

\* C9: an arithmetic instruction is accepted only if both source operands and the
\* destination have a type of the numeric family.
C9_ArithmeticTypesNumeric ==
    (Reaching /\ NextInstr.op \in ArithOps /\ Len(NextInstr.operands) = 3
     /\ Outcome.err = NoError)
    => \A i \in 1..3 :
          IntendedType(declarations, analyzer.current_function, NextInstr.operands[i])
              \in NumericTypes

\* The identifiers an instruction reads
Reads(ins) ==
    LET o == ins.operands
        ids(seq) == {seq[i] : i \in {i \in 1..Len(seq) : seq[i].k = "id"}}
    IN  CASE ins.op = "MOV" /\ Len(o) = 2 /\ ~IsTypeKeyword(o[1]) -> ids(<<o[2]>>)
          [] ins.op = "MOV" /\ Len(o) = 3 -> ids(<<o[3]>>)
          [] ins.op \in ArithOps /\ Len(o) = 3 -> ids(<<o[1], o[2]>>)
          [] ins.op = "PRINT" -> ids(o)
          [] ins.op = "RET" /\ Len(o) >= 1 -> ids(<<o[1]>>)
          [] ins.op = "PUSH" /\ Len(o) >= 2 -> ids(<<o[2]>>)
          [] ins.op \in {"IF", "ELIF", "WHILE"} /\ Len(o) >= 1 -> ids(<<o[1]>>)
          [] ins.op = "CALL" -> ids(CallArgs(o))
          [] OTHER -> {}

\* C10: an instruction reading an identifier declared neither in the current
\* function nor globally fails validation with an undefined-symbol error at its line.
C10_UndefinedReadRejected ==
    (Reaching
     /\ \E t \in Reads(NextInstr) :
           Resolve(declarations, analyzer.current_function, t) = NoDecl)
    => Outcome.err = Undefined(NextInstr.line)

\* The identifiers among the operands of an instruction
Identifiers(ins) ==
    {ins.operands[i] : i \in {i \in 1..Len(ins.operands) : ins.operands[i].k = "id"}}

\* The name is declared, on an earlier line, in the current function or globally
DeclaredBefore(decls, fn, tok, line_num) ==
    Resolve(decls, fn, tok) # NoDecl /\ Resolve(decls, fn, tok).line < line_num

\* C11: a name declared earlier in the enclosing function, else globally, resolves
\* inside a function and at the top level alike: a PRINT of names so declared
\* passes validation.
C11_ScopeResolution ==
    (Reaching /\ NextInstr.op = "PRINT" /\ Identifiers(NextInstr) # {}
     /\ \A t \in Identifiers(NextInstr) :
           DeclaredBefore(declarations, analyzer.current_function, t, NextInstr.line))
    => /\ Outcome.err = NoError
       /\ \A t \in Identifiers(NextInstr) :
             _get_decl(declarations, analyzer, t)
                 = Resolve(declarations, analyzer.current_function, t)

\* The function a CALL line names, as the validator has declared it
CalledFunction(decls, line) ==
    IF TupleKey(NoneV, Text(line.operands[1])) \in DOMAIN decls
    THEN decls[TupleKey(NoneV, Text(line.operands[1]))] ELSE NoDecl

\* A CALL line, written in the function fn, that the call rules forbid
IllFormedCall(decls, fn, line) ==
    LET f == CalledFunction(decls, line)
        args == Tail(line.operands)
    IN  \/ f.kind # "function"
        \/ Len(args) # Len(f.params)
        \/ \E i \in 1..Len(args) : IntendedType(decls, fn, args[i]) # f.params[i][2]
        \/ line.ret # "" /\ f.return_type = "void"
        \/ line.ret # "" /\ Resolve(decls, fn, Id(line.ret)).type # f.return_type

\* C12: a CALL whose target is no defined function, whose argument count or an
\* argument type differs from the parameters, which captures a result from a
\* function without return type, or whose capturing variable has another type
\* than the function returns, is rejected by validation.
C12_CallChecking ==
    (Reaching /\ NextInstr.op = "CALL"
     /\ IllFormedCall(declarations, analyzer.current_function, source[NextInstr.line]))
    => Outcome.err # NoError

\* The validator raised
ValidationFailed == pc = "failed" /\ pass = "end"

\* C13: validation ends with pass or with one categorized compiler error, raised
\* at the first offending instruction; never with an uncategorized exception.
C13_ValidatorTotality ==
    ValidationFailed =>
        /\ error.code \in DOMAIN ErrorCode
        /\ error.line = optimized[vidx].line

\* The number of instructions with the given opcode in a stream
RECURSIVE CountOp(_, _)
CountOp(stream, op) ==
    IF stream = <<>> THEN 0
    ELSE (IF Head(stream).op = op THEN 1 ELSE 0) + CountOp(Tail(stream), op)

\* INDENTs minus DEDENTs
Balance(stream) == CountOp(stream, "INDENT") - CountOp(stream, "DEDENT")

\* What one lexed line did to the indentation stack and to the stream
IndentationStep ==
    (pc = "lex" /\ lineNo' = lineNo + 1) =>
        LET indent == source[lineNo'].indent
            top == Last(indent_stack)
            new == SubSeq(instructions', Len(instructions) + 1, Len(instructions'))
            popped == Len(indent_stack) - Len(indent_stack')
            raised == pc' = "failed" /\ error' = CompilerError("SYNTAX_ERROR", lineNo')
        IN  /\ indent > top =>
                /\ indent_stack' = Append(indent_stack, indent)
                /\ CountOp(new, "INDENT") = 1 /\ CountOp(new, "DEDENT") = 0
                /\ new[1] = Instr("INDENT", <<>>, lineNo')
            /\ indent = top =>
                /\ indent_stack' = indent_stack
                /\ CountOp(new, "INDENT") = 0 /\ CountOp(new, "DEDENT") = 0
            /\ indent < top =>
                /\ popped >= 1
                /\ indent_stack' = SubSeq(indent_stack, 1, Len(indent_stack'))
                /\ CountOp(new, "DEDENT") = popped /\ CountOp(new, "INDENT") = 0
                /\ \A i \in 1..popped : new[i] = Instr("DEDENT", <<>>, lineNo')
                /\ IF \E i \in 1..Len(indent_stack) : indent_stack[i] = indent
                   THEN Last(indent_stack') = indent
                   ELSE raised

\* C14: the indentation stack rises strictly from 0; a deeper line pushes one level
\* and emits one INDENT; a shallower line emits one DEDENT per popped level and
\* lands on a level of the stack or lexing fails with a syntax error at that line;
\* the end of the file closes every level, so each prefix of a lexed stream has at
\* least as many INDENTs as DEDENTs and the whole stream as many.
C14_IndentationStructure ==
    /\ [](/\ indent_stack[1] = 0
          /\ \A i \in 1..(Len(indent_stack) - 1) : indent_stack[i] < indent_stack[i + 1]
          /\ \A k \in 0..Len(instructions) : Balance(SubSeq(instructions, 1, k)) >= 0
          /\ Balance(instructions) = Len(indent_stack) - 1
          /\ (pc \notin {"lex", "failed"} => Balance(instructions) = 0))
    /\ [][IndentationStep]_vars

\* C14 witness: a lexed stream in which one line closed two levels at once
C14_Witness ==
    /\ pc = "optimize"
    /\ CountOp(instructions, "INDENT") = 2
    /\ \E i \in 1..(Len(instructions) - 2) :
          /\ instructions[i].op = "DEDENT" /\ instructions[i + 1].op = "DEDENT"
          /\ instructions[i + 2].op = "PRINT"
          /\ instructions[i + 2].line = instructions[i].line

\* The text up to the first "//" that stands outside a quoted string
RECURSIVE OutsideComment(_, _, _)
OutsideComment(chars, i, quoted) ==
    IF i > Len(chars) THEN chars
    ELSE IF chars[i] = "\"" THEN OutsideComment(chars, i + 1, ~quoted)
    ELSE IF ~quoted /\ i < Len(chars) /\ chars[i] = "/" /\ chars[i + 1] = "/"
    THEN SubSeq(chars, 1, i - 1)
    ELSE OutsideComment(chars, i + 1, quoted)

\* Every quote of the text has its partner
QuotesPaired(chars) == Cardinality({i \in 1..Len(chars) : chars[i] = "\""}) % 2 = 0

\* C15: the lexer cuts a line at a "//" only outside a quoted string, so the
\* operands of the emitted instruction are those written before the comment, a
\* string literal holding "//" among them unchanged.
C15_CommentStripping ==
    (Lexed /\ "text" \in DOMAIN source[1] /\ QuotesPaired(source[1].text))
    => instructions
         = <<Instr(source[1].op,
                   TokensOf(FindAll(OutsideComment(source[1].text, 1, FALSE), 1)), 1)>>

\* The exact result of the instruction op on the ints a and b
Exact(op, a, b) ==
    CASE op = "ADD" -> a + b [] op = "SUB" -> a - b [] op = "MUL" -> a * b
      [] op = "DIV" -> IF b = 0 THEN 0 ELSE Quotient(a, b)
      [] OTHER -> IF b = 0 THEN 0 ELSE Remainder(a, b)

\* the statement that reports an overflow of the operation at a source line
OverflowReport(symbol, line) ==
    "error_exit(45, \"Integer overflow in " \o symbol \o " operation at line "
        \o ToString(line) \o "\");"

\* The run of the generated main of an arithmetic program: guarded for ADD, SUB
\* and MUL, a plain assignment for DIV and MOD
GuardedAsSpecified(program, lines) ==
    LET op == program[5].op
        a == program[2].operands[3].n
        b == program[3].operands[3].n
        exact == Exact(op, a, b)
        out == Run(lines, 1, EmptyDict, 0)
        plain == "    y = x " \o ArithmeticSymbol[op] \o " z;"
    IN  IF op \in {"ADD", "SUB", "MUL"}
        THEN /\ Cardinality({i \in DOMAIN lines : lines[i].kind = "accumulate"}) = 1
             /\ IF exact > INT_MAX \/ exact < INT_MIN
                THEN /\ out.ends = "error_exit"
                     /\ out.code = ErrorCode.OVERFLOW
                     /\ LStrip(lines[out.at].text) = OverflowReport(ArithmeticSymbol[op], 5)
                ELSE /\ out.ends = "return"
                     /\ out.env["y"] = exact
        ELSE /\ \A i \in DOMAIN lines :
                    lines[i].kind \notin {"accumulate", "if_overflow", "error_exit"}
             /\ \E i \in DOMAIN lines : lines[i].kind = "compute" /\ lines[i].text = plain
             /\ Cardinality({i \in DOMAIN lines : lines[i].kind = "compute"}) = 1

\* C16: every ADD, SUB or MUL is computed in the wider accumulator and ends in
\* error_exit, naming the operation and the source line, exactly when the exact
\* result of its int operands lies outside [INT_MIN, INT_MAX], the destination
\* receiving a op b otherwise; DIV and MOD are one plain assignment.  Scenario E
\* compiles, and its run ends in that error_exit.
C16_OverflowGuard ==
    /\ (pc = "generated" /\ source \in ArithmeticPrograms)
       => GuardedAsSpecified(source, c_lines)
    /\ (status # NoStatus /\ source = ScenarioE)
       => /\ pc = "generated"
          /\ LET out == Run(c_lines, 1, EmptyDict, 0)
             IN  /\ out.ends = "error_exit"
                 /\ LStrip(c_lines[out.at].text) = OverflowReport("+", 2)

\* The guard alone holds of every arithmetic program that reaches the generator:
\* the destination of the instruction is declared there, which Scenario E omits.
GuardHolds ==
    (pc = "generated" /\ source \in ArithmeticPrograms) => GuardedAsSpecified(source, c_lines)

\* the generated lines of one kind
OfKind(lines, kind) == {i \in DOMAIN lines : lines[i].kind = kind}

\* C17: for Scenario D the generator emits a C function returning int with the
\* parameters (int a, int b) and the call-site statement r = add(2, 3); and the
\* name called is the name under which the function is defined.
C17_ScenarioD ==
    (status # NoStatus /\ source \in ScenarioDPrograms)
    => /\ pc = "generated"
       /\ LET name == source[1].operands[1].s
          IN  \E d \in OfKind(c_lines, "function") : \E c \in OfKind(c_lines, "call") :
                 /\ c_lines[d].args[2].s = name
                 /\ c_lines[d].text = "int " \o c_lines[d].args[1].s \o "(int a, int b) {"
                 /\ LStrip(c_lines[c].text) = "r = " \o name \o "(2, 3);"
                 /\ c_lines[c].args[1].s = c_lines[d].args[1].s

\* What the generator does emit for Scenario D: the function is defined and
\* called under its source name prefixed with z_
ScenarioDPrefixed ==
    (status # NoStatus /\ source \in ScenarioDPrograms)
    => /\ pc = "generated"
       /\ LET name == source[1].operands[1].s
          IN  \E d \in OfKind(c_lines, "function") : \E c \in OfKind(c_lines, "call") :
                 /\ c_lines[d].text = "int z_" \o name \o "(int a, int b) {"
                 /\ LStrip(c_lines[c].text) = "r = z_" \o name \o "(2, 3);"

\* the program defines the source-language function main
DefinesMain(program) ==
    \E i \in DOMAIN program : program[i].op = "FN" /\ program[i].operands[1].s = "main"

\* C18: the function main of the source is emitted under a C name other than
\* main, and the generated C has one further function main, which returns the
\* result of calling the renamed function.
C18_EntryPoint ==
    (pc = "generated" /\ DefinesMain(source))
    => \E d \in OfKind(c_lines, "function") :
          /\ c_lines[d].args[2].s = "main"
          /\ c_lines[d].args[1].s # "main"
          /\ \E m \in OfKind(c_lines, "function") \ {d} :
                /\ c_lines[m].args[1].s = "main"
                /\ \A o \in OfKind(c_lines, "function") \ {d} : o = m
                /\ \E r \in OfKind(c_lines, "return") :
                      r > m /\ c_lines[r].args[1].s = c_lines[d].args[1].s

\* What the generator does emit: the source main is the C function main itself,
\* taking no parameters, and no other line defines a function of that name
MainIsCMain ==
    (pc = "generated" /\ DefinesMain(source))
    => \E d \in OfKind(c_lines, "function") :
          /\ c_lines[d].args[2].s = "main"
          /\ c_lines[d].text = "int main(void) {"
          /\ \A o \in OfKind(c_lines, "function") : c_lines[o].args[1].s = "main" => o = d

\* the program consists of ERROR 5 "boom" instructions, at the top level or in
\* function bodies
RaisesOnly(program) ==
    /\ \E i \in DOMAIN program : program[i].op = "ERROR"
    /\ \A i \in DOMAIN program :
          \/ program[i].op = "FN"
          \/ program[i].op = "ERROR" /\ program[i].operands = <<Lit(5), Str("boom")>>

\* C19: an ERROR instruction is not resolved by the compiler; it is compiled to
\* one call of error_exit with the code and the message the user wrote.
C19_UserError ==
    (status # NoStatus /\ RaisesOnly(source))
    => /\ pc = "generated"
       /\ \A i \in DOMAIN source :
             source[i].op = "ERROR"
             => \E l \in OfKind(c_lines, "error_exit") :
                   /\ c_lines[l].n = i
                   /\ LStrip(c_lines[l].text) = "error_exit(5, \"boom\");"
                   /\ \A k \in OfKind(c_lines, "error_exit") : c_lines[k].n = i => k = l

\* the run failed with a categorized compiler error
Categorized == error # NoError /\ error.code \in DOMAIN ErrorCode

\* C20: a run that completes ends the process with status 0, and a run that
\* fails with a categorized compiler error ends it with the numeric code of the
\* category of that error.
C20_ExitStatus ==
    status # NoStatus
    => /\ error = NoError => status = 0
       /\ Categorized => status = ErrorCode[error.code]

\* What main.py does: status 0 for a completed run and 1 for every failure
ExitsWithOne ==
    status # NoStatus => status = IF error = NoError THEN 0 ELSE 1


\* The stage compile_zlang is in: 1 lex, 2 optimize, 3 validate, 4 generate,
\* 5 write the C text, 6 invoke the toolchain, 7 returned
Stage ==
    CASE pc = "lex" -> 1
      [] pc = "optimize" -> 2
      [] pc = "validate" -> 3
      [] pc = "done" -> 4
      [] pc = "generated" /\ backend = "idle" -> 5
      [] pc = "generated" /\ backend = "written" -> 6
      [] pc = "generated" /\ backend = "returned" -> 7
      [] OTHER -> 0

\* a stage has raised
Raised == error # NoError

\* the output of the stages from a given stage on is still what it was at the start
NotRun(from) ==
    /\ from <= 2 => optimized = <<>>
    /\ from <= 3 => vidx = 0
    /\ from <= 4 => c_lines = <<>>
    /\ from <= 5 => c_file = "absent" /\ output_format = ""
    /\ from <= 6 => output = "absent"

C22_ValidationReadOnly ==
    [][pc = "validate" => declarations' = declarations /\ optimized' = optimized]_vars

\* What does hold: validation leaves the instruction list unchanged
ValidationKeepsStream == [][pc = "validate" => optimized' = optimized]_vars

\* the identifier that ends just before position i of the text ("" if none)
RECURSIVE NameBefore(_, _)
NameBefore(text, i) ==
    IF i = 0 \/ Char(text, i) \notin Range(IdentifierChars) THEN ""
    ELSE NameBefore(text, i - 1) \o Char(text, i)

\* the functions a line of C calls: the names directly followed by "("
Callees(text) ==
    {NameBefore(text, i - 1) : i \in {j \in 1..Len(text) : Char(text, j) = "("}} \ {""}

\* the functions the generated unit defines after the preamble
DefinedFunctions(lines) == {lines[i].args[1].s : i \in OfKind(lines, "function")}

\* C23: every function an emitted statement calls is defined by the preamble
\* (the print helpers for int, bool, string, double and pointer among them), by
\* the unit itself or by a header the preamble includes.
C23_PreambleClosure ==
    pc = "generated"
    => \A i \in DOMAIN c_lines :
          c_lines[i].kind # "function"
          => Callees(c_lines[i].text)
                \subseteq PreambleHelpers \cup LibraryFunctions \cup DefinedFunctions(c_lines)

\* What does hold: print_double is the only function called and not defined
OnlyPrintDoubleMissing ==
    pc = "generated"
    => \A i \in DOMAIN c_lines :
          c_lines[i].kind # "function"
          => Callees(c_lines[i].text)
                \subseteq PreambleHelpers \cup LibraryFunctions \cup DefinedFunctions(c_lines)
                              \cup {"print_double"}

\* a plain assignment MOV dest value (src/lexer.py 286-291) whose destination no
\* later instruction of the stream reads
IsDeadAssignment(stream, i) ==
    LET o == stream[i].operands
    IN  /\ stream[i].op = "MOV" /\ Len(o) = 2 /\ ~IsTypeKeyword(o[1])
        /\ \A j \in (i + 1)..Len(stream) : o[1] \notin Reads(stream[j])

\* the stream without its dead plain assignments, from instruction i on
RECURSIVE Surviving(_, _)
Surviving(stream, i) ==
    IF i > Len(stream) THEN <<>>
    ELSE (IF IsDeadAssignment(stream, i) THEN <<>> ELSE <<stream[i]>>)
             \o Surviving(stream, i + 1)

\* C24: dead-store elimination removes exactly the plain assignments whose
\* destination no later instruction reads, and nothing else.
C24_DeadStoreElimination ==
    [][(pc = "optimize" /\ pass = "eliminate" /\ round = 1)
          => optimized' = Surviving(optimized, 1)]_vars

\* What does hold: the pass removes two-operand MOVs only, typed declarations
\* and every other instruction stay, in order
OnlyPlainMovesRemoved ==
    [][(pc = "optimize" /\ pass = "eliminate")
          => \E kept \in SUBSET (1..Len(optimized)) :
                /\ \A i \in (1..Len(optimized)) \ kept :
                      optimized[i].op = "MOV" /\ Len(optimized[i].operands) = 2
                /\ Len(optimized') = Cardinality(kept)
                /\ \A i \in kept :
                      optimized'[Cardinality({j \in kept : j <= i})] = optimized[i]]_vars

\* a move of x into dest, in either order of the two operands
MovesOf(x, dest, line) == {Instr("MOV", <<dest, x>>, line), Instr("MOV", <<x, dest>>, line)}

\* What strength reduction may return for an instruction: for a MUL or an ADD
\* of x and the literal named, in either order of the sources, the rewritten
\* instruction; otherwise the instruction itself
Reductions(ins) ==
    LET o == ins.operands
        pairs == IF Len(o) = 3 THEN {<<o[1], o[2]>>, <<o[2], o[1]>>} ELSE {}
        rewritten ==
            CASE ins.op = "MUL" ->
                    {Instr("ADD", <<p[1], p[1], o[3]>>, ins.line) :
                        p \in {q \in pairs : q[2] = Lit(2)}}
                    \cup UNION {MovesOf(p[1], o[3], ins.line) :
                                    p \in {q \in pairs : q[2] = Lit(1)}}
              [] ins.op = "ADD" ->
                    UNION {MovesOf(p[1], o[3], ins.line) : p \in {q \in pairs : q[2] = Lit(0)}}
              [] OTHER -> {}
    IN  IF rewritten = {} THEN {ins} ELSE rewritten

\* C25: strength reduction turns x * 2 into x + x, x * 1 into a move of x and
\* x + 0 into a move of x, each into the original destination, and returns every
\* other instruction unchanged, one output instruction for each input instruction.
C25_StrengthReduction ==
    [][(pc = "optimize" /\ pass = "reduce")
          => /\ Len(optimized') = Len(optimized)
             /\ \A i \in 1..Len(optimized) : optimized'[i] \in Reductions(optimized[i])]_vars

\* What does hold: the rewriting happens when the literal is the first source
\* operand, and the output is as long as the input
ReducesLiteralFirst ==
    [][(pc = "optimize" /\ pass = "reduce")
          => /\ Len(optimized') = Len(optimized)
             /\ \A i \in 1..Len(optimized) :
                   LET o == optimized[i].operands
                   IN  (Len(o) = 3 /\ <<optimized[i].op, o[1]>>
                            \in {<<"MUL", Lit(2)>>, <<"MUL", Lit(1)>>, <<"ADD", Lit(0)>>})
                       => optimized'[i] \in Reductions(optimized[i])]_vars

\* The positions of the operands an instruction writes.  A two-operand MOV
\* is dest value, or value dest when its first operand is a number.
WritePositions(ins) ==
    LET o == ins.operands
    IN  CASE ins.op \in {"MOV", "CONST"} /\ Len(o) = 3 -> {2}
          [] ins.op = "MOV" /\ Len(o) = 2 -> IF is_numeric_operand(o[1]) THEN {2} ELSE {1}
          [] ins.op \in ArithOps /\ Len(o) = 3 -> {3}
          [] ins.op \in {"INC", "DEC", "READ"} /\ Len(o) >= 1 -> {1}
          [] ins.op \in {"POP", "LEN"} /\ Len(o) >= 2 -> {2}
          [] ins.op = "CALL" /\ Len(o) >= 2 -> {Len(o)}
          [] OTHER -> {}
Writes(ins) == {ins.operands[j] : j \in WritePositions(ins)}

\* the instruction assigns the literal to v
AssignsLiteral(ins, v, literal) ==
    /\ ins.op \in {"MOV", "CONST"}
    /\ Writes(ins) = {v}
    /\ ins.operands[IF Len(ins.operands) = 3 THEN 3
                    ELSE IF is_numeric_operand(ins.operands[1]) THEN 1 ELSE 2] = literal

\* the most recent write to v before instruction i assigned the literal
LastWriteAssigns(stream, i, v, literal) ==
    \E k \in 1..(i - 1) :
        /\ AssignsLiteral(stream[k], v, literal)
        /\ \A m \in (k + 1)..(i - 1) : v \notin Writes(stream[m])

\* C26: constant propagation replaces a read of v by a literal only if the
\* most recent earlier write to v assigned exactly that literal.
C26_PropagationSound ==
    [][(pc = "optimize" /\ pass = "propagate")
          => \A i \in 1..Len(optimized) :
                \A j \in (1..Len(optimized[i].operands)) \ WritePositions(optimized[i]) :
                    optimized'[i].operands[j] # optimized[i].operands[j]
                    => LastWriteAssigns(optimized, i, optimized[i].operands[j],
                                        optimized'[i].operands[j])]_vars

\* What does hold: a replaced operand is given the literal of some earlier
\* two-operand MOV of a number to that name
ReplacedByEarlierLiteral ==
    [][(pc = "optimize" /\ pass = "propagate")
          => /\ Len(optimized') = Len(optimized)
             /\ \A i \in 1..Len(optimized) :
                   \A j \in 1..Len(optimized[i].operands) :
                       optimized'[i].operands[j] # optimized[i].operands[j]
                       => \E k \in 1..(i - 1) :
                             /\ optimized'[k].op = "MOV"
                             /\ optimized'[k].operands
                                   = <<optimized'[i].operands[j], optimized[i].operands[j]>>]_vars


----------------------------------------------------------------------------
(* Block placement in the generated C *)

\* The INDENT that the DEDENT at position i closes
RECURSIVE MatchingIndent(_, _, _)
MatchingIndent(stream, j, nested) ==
    IF j < 1 THEN 0
    ELSE IF stream[j].op = "DEDENT" THEN MatchingIndent(stream, j - 1, nested + 1)
    ELSE IF stream[j].op = "INDENT"
    THEN IF nested = 0 THEN j ELSE MatchingIndent(stream, j - 1, nested - 1)
    ELSE MatchingIndent(stream, j - 1, nested)

\* The opcode of the line that opened the block ended by the DEDENT at i
OpenerOf(stream, i) ==
    LET j == MatchingIndent(stream, i - 1, 0)
    IN  IF j > 1 THEN stream[j - 1].op ELSE NoneV

\* The name of the function whose body the DEDENT at i ends
OwnerOf(stream, i) ==
    LET j == MatchingIndent(stream, i - 1, 0)
    IN  IF j > 1 /\ stream[j - 1].operands # <<>> THEN Text(stream[j - 1].operands[1])
        ELSE NoneV

BlockOps == {"FNDEF", "IF", "ELIF", "ELSE", "WHILE", "FOR"}

\* The state of the generator after the first k instructions of the stream
GeneratorAfter(stream, decls, k) ==
    LET p == FirstLoop(stream, 1,
                       [vt |-> EmptyDict, lv |-> EmptyDict, fp |-> EmptyDict, decls |-> decls,
                        cur |-> NoneV, depth |-> 0, err |-> NoError])
    IN  SecondLoop(SubSeq(stream, 1, k), 1,
                   [lines |-> <<>>, level |-> 0, stack |-> <<>>, vt |-> p.vt, err |-> NoError],
                   p.decls, p.lv)

\* The lines the generator emits for instruction i
EmittedAt(stream, decls, i) ==
    Drop(GeneratorAfter(stream, decls, i).lines, Len(GeneratorAfter(stream, decls, i - 1).lines))

\* The generator closes a function at instruction i
ClosesFunctionAt(stream, decls, i) ==
    Len(GeneratorAfter(stream, decls, i).stack) < Len(GeneratorAfter(stream, decls, i - 1).stack)

WellNested(stream) ==
    \A i \in 1..Len(stream) :
        /\ stream[i].op = "DEDENT" => OpenerOf(stream, i) \in BlockOps
        /\ stream[i].op = "INDENT" => i > 1 /\ stream[i - 1].op \in BlockOps

PlacedAsSpecified(stream, decls) ==
    \A i \in 1..Len(stream) :
        LET emitted == EmittedAt(stream, decls, i)
            kinds == {emitted[k].kind : k \in 1..Len(emitted)}
        IN  /\ stream[i].op \in BlockOps
                => Cardinality({k \in 1..Len(emitted) :
                                   emitted[k].kind \in {"block", "function"}}) = 1
            /\ stream[i].op = "DEDENT"
                => /\ emitted # <<>> /\ Last(emitted).kind = "close"
                   /\ ClosesFunctionAt(stream, decls, i) <=> OpenerOf(stream, i) = "FNDEF"
                   /\ "return" \in kinds
                         <=> OpenerOf(stream, i) = "FNDEF" /\ OwnerOf(stream, i) = "main"

\* C27: for a well-nested stream every block opener emits one opening line and
\* the DEDENT of its block the closing brace; a function is closed, and the
\* return 0 of main emitted, at the DEDENT that ends the function body and at
\* no DEDENT of an IF, ELIF, ELSE, WHILE or FOR block inside it.
C27_BlockPlacement ==
    [][(pc = "done" /\ pc' = "generated" /\ WellNested(optimized))
          => PlacedAsSpecified(optimized, declarations)]_vars

\* What the generator does: a function is closed by the first DEDENT that
\* brings the level of the generator back to zero, and a FOR block, the only
\* one that raises the level, never closes the function around it
ForClosesOnlyItself ==
    [][(pc = "done" /\ pc' = "generated")
          => \A i \in 1..Len(optimized) :
                /\ optimized[i].op = "DEDENT" /\ OpenerOf(optimized, i) = "FOR"
                      => ~ClosesFunctionAt(optimized, declarations, i)
                /\ optimized[i].op = "DEDENT"
                      => (ClosesFunctionAt(optimized, declarations, i)
                            <=> /\ GeneratorAfter(optimized, declarations, i - 1).stack # <<>>
                                /\ GeneratorAfter(optimized, declarations, i).level = 0)]_vars


----------------------------------------------------------------------------
(* The optimized stream before the validator *)

ValidatesAgainst(stream, decls) == validate_const_and_types(stream, decls).err = NoError

\* The optimizer has returned and the validator has not started
OptimizerReturned == pc = "validate" /\ vidx = 0

\* The untyped MOVs of the optimized stream that stand where the lexed stream
\* has an arithmetic instruction, with that instruction
EmittedMovs ==
    {<<m, a>> \in Range(optimized) \X Range(instructions) :
        /\ m.op = "MOV" /\ Len(m.operands) = 2
        /\ a.op \in ArithOps /\ Len(a.operands) = 3
        /\ m.line = a.line}

\* C28: a stream that passes validation against the declaration table still
\* passes it after optimize_instructions, and every MOV that folding or strength
\* reduction puts in place of an arithmetic instruction has the destination of
\* that instruction first and the value second.
C28_OptimizationPreservesValidity ==
    OptimizerReturned =>
        /\ ValidatesAgainst(instructions, declarations)
              => ValidatesAgainst(optimized, declarations)
        /\ \A e \in EmittedMovs : e[1].operands[1] = e[2].operands[3]

\* What the optimizer does: the MOV it emits has the value first and the
\* destination second, the destination as propagation left it
EmitsValueFirst ==
    OptimizerReturned =>
        \A e \in EmittedMovs :
            \/ e[1].operands[2] = e[2].operands[3]
            \/ is_numeric_operand(e[1].operands[2])


----------------------------------------------------------------------------
(* The operands that name what an instruction writes *)

\* The declared name of a typed MOV or CONST, the destination of an arithmetic
\* instruction, of CALL, POP, LEN and READ, the target of INC and DEC, the
\* parameter names of FNDEF
TargetPositions(ins) ==
    LET o == ins.operands
    IN  CASE ins.op \in {"MOV", "CONST"} /\ Len(o) = 3 /\ IsTypeKeyword(o[1]) -> {2}
          [] ins.op \in ArithOps /\ Len(o) = 3 -> {3}
          [] ins.op \in {"INC", "DEC", "READ"} /\ Len(o) >= 1 -> {1}
          [] ins.op \in {"POP", "LEN"} /\ Len(o) >= 2 -> {2}
          [] ins.op = "CALL" /\ Len(o) >= 2 -> {Len(o)}
          [] ins.op = "FNDEF" -> {k \in 3..Len(o) : k % 2 = 1}
          [] OTHER -> {}

\* out names the same targets as the instruction it is derived from
SameTargets(in, out) ==
    (out.op = in.op /\ Len(out.operands) = Len(in.operands))
        => \A k \in TargetPositions(in) : out.operands[k] = in.operands[k]

\* C29: every instruction the optimizer returns names the same write target as
\* the instruction of the lexed stream it is derived from, and no pass of
\* constant propagation replaces a write target by a literal.
C29_WriteTargetsKept ==
    /\ [](OptimizerReturned
            => \A out \in Range(optimized) : \A in \in Range(instructions) :
                  out.line = in.line => SameTargets(in, out))
    /\ [][(pc = "optimize" /\ pass = "propagate")
            => \A i \in 1..Len(optimized) : SameTargets(optimized[i], optimized'[i])]_vars

\* What propagation does: a target is kept or replaced by a number recorded
\* for its name
TargetsKeptOrLiteral ==
    [][(pc = "optimize" /\ pass = "propagate")
          => \A i \in 1..Len(optimized) : \A k \in TargetPositions(optimized[i]) :
                \/ optimized'[i].operands[k] = optimized[i].operands[k]
                \/ is_numeric_operand(optimized'[i].operands[k])]_vars


----------------------------------------------------------------------------
(* Calls in the layout of the lexer: name, arguments, destination *)

\* The call targets a defined function with as many arguments as parameters,
\* each of the type of its parameter, and its destination is the sentinel or a
\* declared variable, not const, of the return type of the function
WellFormedCall(decls, an, ins) ==
    LET o == ins.operands
        key == TupleKey(NoneV, Text(o[1]))
        func == decls[key]
        args == SubSeq(o, 2, Len(o) - 1)
        dest == _get_decl(decls, an, Last(o))
    IN  /\ ins.op = "CALL" /\ Len(o) >= 2
        /\ key \in DOMAIN decls /\ func.kind = "function"
        /\ Len(args) = Len(func.params)
        /\ \A i \in 1..Len(args) : _infer_type(decls, an, args[i]) = func.params[i][2]
        /\ \/ Last(o) = Id("_")
           \/ /\ dest.kind \notin {"none", "function"}
              /\ ~dest.const
              /\ dest.type = func.return_type

\* The validator is about to process instruction ins
Validating(ins) ==
    pc = "validate" /\ vidx < Len(optimized) /\ optimized[vidx + 1] = ins /\ vidx' = vidx + 1

\* C30: a CALL in the layout of the lexer to a defined function, with matching
\* arguments, passes validation, with its return discarded or captured into a
\* declared variable of the return type, whatever the number of parameters.
C30_WellFormedCallsAccepted ==
    [][\A ins \in Range(optimized) :
          (Validating(ins) /\ WellFormedCall(declarations, analyzer, ins))
              => error' = NoError]_vars

\* What the validator accepts: the well-formed calls that pass at least one
\* argument and capture the return
CapturingCallsAccepted ==
    [][\A ins \in Range(optimized) :
          (/\ Validating(ins) /\ WellFormedCall(declarations, analyzer, ins)
           /\ Len(ins.operands) > 2 /\ Last(ins.operands) # Id("_"))
              => error' = NoError]_vars

====
